---- MODULE Spec2Model ----
(***************************************************************************)
(* Customer support agent with escalation: the turn controller             *)
(* (agent.py), the conversation state (memory_manager.py), the pattern     *)
(* rule (escalation_manager.py), the ticket tool (tools.py) and the ticket *)
(* store (admin_store.py).                                                 *)
(*                                                                         *)
(* Messages are strings; lower(), strip(), title(), the substring test     *)
(* `in` and the regular expressions of the source are computed character   *)
(* by character.  The alphabet of the modelled messages is ASCII without   *)
(* newlines, so the two Bangla patterns of extract_name, which start with  *)
(* a literal Bangla prefix, cannot match and are left out.  The texts the  *)
(* program produces are kept without their emoji and markdown decoration.  *)
(*                                                                         *)
(* One call of a handler is one step.  The capabilities the agent calls    *)
(* are the environment: the generation (llm.invoke) and the retrievals     *)
(* (get_relevant_memory, similarity_search) return or raise; writing to    *)
(* the long-term memory (add_memory) and to admin_escalations.json is      *)
(* taken to succeed, except in SpecAbort and SpecCrash.  The timestamp of  *)
(* a history message and the source_documents of a reply are read by no    *)
(* handler and are left out.                                               *)
(*                                                                         *)
(* Spec is one session with its admin panel; SpecTurns is the user of the  *)
(* session alone, one turn longer; SpecMemory is the conversation memory   *)
(* called directly; SpecSessions adds the store of a second session on the *)
(* same file; SpecCrash adds a crash of the process inside a write of the  *)
(* file and the next start; SpecConcurrent is one agent called by two      *)
(* threads, which interleave between the statements of the handler;        *)
(* SpecSla is the user of the session over a time as long as the SLA;      *)
(* SpecStore is the ticket store called directly; SpecSnapshot keeps the   *)
(* lists of the conversation as objects with addresses; SpecIntent is the  *)
(* intent classifier applied to messages put together from phrases, and    *)
(* SpecPattern and SpecPriority are the pattern rule and the priority of a *)
(* ticket applied likewise; SpecManager is every operation of the          *)
(* conversation memory called directly; SpecAbort is SpecTurns with a      *)
(* long-term memory whose add_memory may raise; SpecFraud is the session   *)
(* of a user who reports a fraud; SpecLock is one ticket store called by   *)
(* two threads, which interleave between the statements of its operations. *)
(***************************************************************************)
EXTENDS Integers, Sequences, FiniteSets, TLC

(***************************************************************************)
(* String primitives of Python used by the source                          *)
(***************************************************************************)
UpperChars == "ABCDEFGHIJKLMNOPQRSTUVWXYZ"
LowerChars == "abcdefghijklmnopqrstuvwxyz"
DigitChars == "0123456789_"

CharAt(s, i) == SubSeq(s, i, i)

IndexIn(alphabet, c) ==
  IF \E i \in 1..Len(alphabet) : CharAt(alphabet, i) = c
  THEN CHOOSE i \in 1..Len(alphabet) : CharAt(alphabet, i) = c
  ELSE 0

LowerChar(c) ==
  IF IndexIn(UpperChars, c) > 0 THEN CharAt(LowerChars, IndexIn(UpperChars, c)) ELSE c

UpperChar(c) ==
  IF IndexIn(LowerChars, c) > 0 THEN CharAt(UpperChars, IndexIn(LowerChars, c)) ELSE c

IsLetter(c) == IndexIn(UpperChars, c) > 0 \/ IndexIn(LowerChars, c) > 0

\* \w of the re module on ASCII text
IsWordChar(c) == IsLetter(c) \/ IndexIn(DigitChars, c) > 0

\* \s ; the modelled messages hold no tab or newline
IsSpace(c) == c = " "

\* str.lower(), one half of the text after the other
RECURSIVE Lower(_)
Lower(s) ==
  IF Len(s) = 0 THEN ""
  ELSE IF Len(s) = 1 THEN LowerChar(s)
  ELSE LET half == Len(s) \div 2
       IN  Lower(SubSeq(s, 1, half)) \o Lower(SubSeq(s, half + 1, Len(s)))

RECURSIVE LStrip(_)
LStrip(s) ==
  IF Len(s) > 0 /\ IsSpace(CharAt(s, 1)) THEN LStrip(SubSeq(s, 2, Len(s))) ELSE s

RECURSIVE RStrip(_)
RStrip(s) ==
  IF Len(s) > 0 /\ IsSpace(CharAt(s, Len(s))) THEN RStrip(SubSeq(s, 1, Len(s) - 1)) ELSE s

Strip(s) == LStrip(RStrip(s))

\* str.title(): a letter is upper-cased when it does not follow a letter
RECURSIVE TitleFrom(_, _)
TitleFrom(s, i) ==
  IF i > Len(s) THEN ""
  ELSE (IF i = 1 \/ ~IsLetter(CharAt(s, i - 1))
        THEN UpperChar(CharAt(s, i))
        ELSE LowerChar(CharAt(s, i))) \o TitleFrom(s, i + 1)

Title(s) == TitleFrom(s, 1)

\* p occurs in s at position i
MatchAt(s, p, i) == i >= 1 /\ i + Len(p) - 1 <= Len(s) /\ SubSeq(s, i, i + Len(p) - 1) = p

\* Python's  p in s
Contains(s, p) == \E i \in 1..(Len(s) - Len(p) + 1) : MatchAt(s, p, i)

\* \b between positions i-1 and i of s
Boundary(s, i) ==
  LET before == i > 1 /\ i - 1 <= Len(s) /\ IsWordChar(CharAt(s, i - 1))
      after  == i >= 1 /\ i <= Len(s) /\ IsWordChar(CharAt(s, i))
  IN  before # after

\* re.search(r"\bp\b", s) for a literal p
SearchWord(s, p) ==
  \E i \in 1..(Len(s) - Len(p) + 1) :
    MatchAt(s, p, i) /\ Boundary(s, i) /\ Boundary(s, i + Len(p))

\* re.search(r"\bp.*q\b", s) for literals p and q (no newline in s)
SearchWordGap(s, p, q) ==
  \E i \in 1..Len(s), j \in 1..Len(s) :
    /\ MatchAt(s, p, i) /\ Boundary(s, i)
    /\ j >= i + Len(p)
    /\ MatchAt(s, q, j) /\ Boundary(s, j + Len(q))

\* end of the maximal run of letters of s that starts at i (i - 1 when none)
RECURSIVE LettersEnd(_, _)
LettersEnd(s, i) ==
  IF i <= Len(s) /\ IsLetter(CharAt(s, i)) THEN LettersEnd(s, i + 1) ELSE i - 1

\* end of the maximal run of whitespace of s that starts at i
RECURSIVE SpacesEnd(_, _)
SpacesEnd(s, i) ==
  IF i <= Len(s) /\ IsSpace(CharAt(s, i)) THEN SpacesEnd(s, i + 1) ELSE i - 1

(***************************************************************************)
(* memory_manager.py : identity fast path and intent classifier            *)
(***************************************************************************)
\* extract_name returns None when no name is found; a name has at least
\* two letters, so the empty string stands for None
NoName == ""

blacklist ==
  {"fine", "okay", "angry", "sad", "happy", "ready", "tired", "having", "trouble", "problem"}

\* literal prefixes of the English patterns, in the order of the list; each
\* is followed by \s+ and the group ([a-zA-Z]{2,}), the first one by the
\* group ([a-zA-Z]{2,}(?:\s[a-zA-Z]{2,})?)
name_patterns == <<"my name is", "i am", "i'm", "call me", "this is">>

\* the pattern of index k matches msg at position i
NameMatchAt(msg, k, i) ==
  LET p  == name_patterns[k]
      se == SpacesEnd(msg, i + Len(p))
  IN  /\ MatchAt(msg, p, i)
      /\ Boundary(msg, i)
      /\ se >= i + Len(p)
      /\ LettersEnd(msg, se + 1) >= se + 2

NameMatches(msg, k) == \E i \in 1..Len(msg) : NameMatchAt(msg, k, i)

\* match.group(1) of the leftmost match of pattern k
NameGroup(msg, k) ==
  LET i  == CHOOSE j \in 1..Len(msg) :
              NameMatchAt(msg, k, j) /\ \A h \in 1..(j - 1) : ~NameMatchAt(msg, k, h)
      se == SpacesEnd(msg, i + Len(name_patterns[k]))
      le == LettersEnd(msg, se + 1)
      l2 == LettersEnd(msg, le + 2)
      e  == IF k = 1 /\ le + 1 <= Len(msg) /\ IsSpace(CharAt(msg, le + 1)) /\ l2 >= le + 3
            THEN l2 ELSE le
  IN  SubSeq(msg, se + 1, e)

extract_name(message) ==
  LET msg == Lower(Strip(message))
  IN  IF \E k \in 1..Len(name_patterns) : NameMatches(msg, k)
      THEN LET k    == CHOOSE j \in 1..Len(name_patterns) :
                         NameMatches(msg, j) /\ \A h \in 1..(j - 1) : ~NameMatches(msg, h)
               name == Title(Strip(NameGroup(msg, k)))
           IN  IF Lower(name) \in blacklist THEN NoName ELSE name
      ELSE NoName

\* the classifier that looks for a complaint before it looks for a refund
_detect_intent_complaint_first(message) ==
  LET msg == Lower(message)
  IN  IF extract_name(message) # NoName THEN "IDENTITY"
      ELSE IF \E x \in {"complaint", "angry", "not happy", "bad", "worst"} : Contains(msg, x)
           THEN "COMPLAINT"
      ELSE IF Contains(msg, "refund")
           THEN (IF \E x \in {"want", "now", "immediately"} : Contains(msg, x)
                 THEN "REFUND_DEMAND"
                 ELSE "REFUND_INFO")
      ELSE IF \E x \in {"human", "agent", "support"} : Contains(msg, x)
           THEN "HUMAN_REQUEST"
      ELSE "GENERAL"

\* lines 216-233
_detect_intent(message) ==
  LET msg == Lower(message)
  IN  IF extract_name(message) # NoName THEN "IDENTITY"
      ELSE IF Contains(msg, "refund")
           THEN (IF \E x \in {"want", "now", "immediately"} : Contains(msg, x)
                 THEN "REFUND_DEMAND"
                 ELSE "REFUND_INFO")
      ELSE IF \E x \in {"complaint", "angry", "not happy", "bad", "worst"} : Contains(msg, x)
           THEN "COMPLAINT"
      ELSE IF \E x \in {"human", "agent", "support"} : Contains(msg, x)
           THEN "HUMAN_REQUEST"
      ELSE "GENERAL"

should_store_long_term(intent) ==
  intent \in {"REFUND_DEMAND", "COMPLAINT", "HUMAN_REQUEST", "IDENTITY"}

extract_memory_text(message) == Strip(message)

(***************************************************************************)
(* escalation_manager.py : the pattern rule                                *)
(***************************************************************************)
high_patterns ==
  {"talk to human", "real agent", "human agent", "i want a refund", "refund denied",
   "complaint", "not happy", "angry", "legal", "scam", "fraud", "hacked",
   "bad service", "worst experience"}

medium_patterns ==
  {"how can i get a refund", "refund process", "refund procedure", "refund steps",
   "payment issue", "billing issue"}

\* the low patterns without ".*"
low_patterns ==
  {"refund policy", "refund rules", "refund terms", "about refunds",
   "what is this document about", "summarize"}

\* the low patterns  \bwhat does.*refund\b  and  \bhow does.*refund\b
low_gap_patterns == {<<"what does", "refund">>, <<"how does", "refund">>}

HighReason == "User complaint, demand, or sensitive issue detected"
MediumReason == "Sensitive topic - explain policy first"
InfoReason == "Informational query"
GeneralReason == "General query"

\* the rule that tests the tiers from the lowest to the highest
should_escalate_low_first(user_message) ==
  LET message == Lower(user_message)
  IN  IF \/ \E p \in low_patterns : SearchWord(message, p)
         \/ \E g \in low_gap_patterns : SearchWordGap(message, g[1], g[2])
      THEN [level |-> "LOW", reason |-> InfoReason]
      ELSE IF \E p \in medium_patterns : SearchWord(message, p)
      THEN [level |-> "MEDIUM", reason |-> MediumReason]
      ELSE IF \E p \in high_patterns : SearchWord(message, p)
      THEN [level |-> "HIGH", reason |-> HighReason]
      ELSE [level |-> "LOW", reason |-> GeneralReason]

\* lines 52-92
should_escalate(user_message) ==
  LET message == Lower(user_message)
  IN  IF \E p \in high_patterns : SearchWord(message, p)
      THEN [level |-> "HIGH", reason |-> HighReason]
      ELSE IF \E p \in medium_patterns : SearchWord(message, p)
      THEN [level |-> "MEDIUM", reason |-> MediumReason]
      ELSE IF \/ \E p \in low_patterns : SearchWord(message, p)
              \/ \E g \in low_gap_patterns : SearchWordGap(message, g[1], g[2])
      THEN [level |-> "LOW", reason |-> InfoReason]
      ELSE [level |-> "LOW", reason |-> GeneralReason]

(***************************************************************************)
(* agent.py : helpers                                                      *)
(***************************************************************************)
\* the priority that looks for the MEDIUM keywords first
_decide_priority_medium_first(r) ==
  LET reason == Lower(r)
  IN  IF \E x \in {"refund", "billing", "payment"} : Contains(reason, x) THEN "MEDIUM"
      ELSE IF \E x \in {"fraud", "scam", "hacked"} : Contains(reason, x) THEN "HIGH"
      ELSE "MEDIUM"

\* lines 282-288
_decide_priority(r) ==
  LET reason == Lower(r)
  IN  IF \E x \in {"fraud", "scam", "hacked"} : Contains(reason, x) THEN "HIGH"
      ELSE IF \E x \in {"refund", "billing", "payment"} : Contains(reason, x) THEN "MEDIUM"
      ELSE "MEDIUM"

_is_name_question(message) ==
  LET msg == Lower(message)
  IN  \E x \in {"my name", "remember my name", "what is my name", "amar naam", "amar nam ki"} :
        Contains(msg, x)

is_small_talk(user_message) ==
  Strip(Lower(user_message)) \in {"hi", "hello", "hey", "how are you"}

\* str.upper()
RECURSIVE Upper(_)
Upper(s) ==
  IF Len(s) = 0 THEN ""
  ELSE IF Len(s) = 1 THEN UpperChar(s)
  ELSE LET half == Len(s) \div 2
       IN  Upper(SubSeq(s, 1, half)) \o Upper(SubSeq(s, half + 1, Len(s)))

\* str.replace(old, new), leftmost non-overlapping occurrences
RECURSIVE Replace(_, _, _)
Replace(s, old, new) ==
  IF Len(s) = 0 THEN ""
  ELSE IF MatchAt(s, old, 1)
       THEN new \o Replace(SubSeq(s, Len(old) + 1, Len(s)), old, new)
       ELSE CharAt(s, 1) \o Replace(SubSeq(s, 2, Len(s)), old, new)

(***************************************************************************)
(* Bounds and inputs                                                       *)
(***************************************************************************)
\* number of calls of a run: get_full_response by the user, update_status and
\* add_admin_reply by the admin panel
MaxCalls == 2
\* last value of the clock (seconds)
MaxTime == 1
\* number of calls of add_user_message and add_agent_message made on a
\* conversation memory after the messages of its earlier turns
MaxAdds == 3

\* user messages fed to the agent
Messages ==
  {"I want a refund now",
   "refund immediately please",
   "I want a refund, this is terrible!",
   "What is your refund policy?",
   "My name is Rahim",
   "what is my name? refund now",
   "hi",
   "bad product",
   "payment issue"}

\* user messages that name a fraud: two that the pattern rule hands to a
\* human, and a complaint that it does not
FraudMessages == {"this is a scam", "my account was hacked", "bad product from scammers"}

\* texts the generation capability answers with
Replies == {"Refunds take 5 days.", "I don't know"}

\* texts stored by direct calls of the conversation memory
MemoryTexts == {"bad product", "ok"}

\* further messages handed to the conversation memory when its counters are
\* followed
CountedTexts == {"refund now", "what is the refund policy"}

\* text an admin sends
AdminTexts == {"We are on it"}

Intents == {"IDENTITY", "REFUND_DEMAND", "REFUND_INFO", "COMPLAINT", "HUMAN_REQUEST", "GENERAL"}

(***************************************************************************)
(* Program constants                                                       *)
(***************************************************************************)
max_history == 20
intent_history_maxlen == 10
sla_seconds == 1800
user_id == "default_user"

RepeatedReason == "Repeated complaint or refund demand"

TakeoverReply ==
  "A human support agent is handling your issue.\nPlease wait for their response."

NotToldReply == "You haven't told me your name yet"

(***************************************************************************)
(* State                                                                   *)
(***************************************************************************)
VARIABLES
  human_takeover,      \* CustomerSupportAgent.human_takeover
  _history,            \* MemoryManager._history, messages without their timestamp
  _intent_history,     \* MemoryManager._intent_history
  _intent_counter,     \* MemoryManager._intent_counter
  failed_ai_replies,   \* MemoryManager.failed_ai_replies
  conversation_start,  \* MemoryManager.conversation_start
  long_term_memory,    \* texts held by UserMemoryStore, in order of insertion
  _escalations,        \* AdminStore._escalations
  storage_file,        \* records of the last complete write of admin_escalations.json
  storage_torn,        \* a later write of the file was cut short: it is not valid JSON
  peer_store,          \* the AdminStore of the agent of a second session
  heap,                \* the list objects of the session and of its tickets
  turns,               \* the calls of get_full_response in progress, one per thread
  now,                 \* the last value read from the clock, in seconds
  result,              \* outcome of the last call
  calls                \* number of calls so far

vars ==
  <<human_takeover, _history, _intent_history, _intent_counter, failed_ai_replies,
    conversation_start, long_term_memory, _escalations, storage_file, storage_torn,
    peer_store, heap, turns, now, result, calls>>

memory_vars ==
  <<_history, _intent_history, _intent_counter, failed_ai_replies, conversation_start>>

store_vars == <<_escalations, storage_file, storage_torn>>

\* what the operations of one session on its own store leave alone
other_vars == <<peer_store, heap, turns>>

\* outcome of a call: what it returned, or that it raised
Returned(op, output, escalated) ==
  [op |-> op, raised |-> FALSE, output |-> output, escalated |-> escalated]

Raised(op, capability) ==
  [op |-> op, raised |-> TRUE, output |-> capability, escalated |-> FALSE]

NoResult == Returned("init", "", FALSE)

\* a second session before its agent is constructed
NotStarted == [started |-> FALSE, _escalations |-> <<>>]

\* threads that may call get_full_response on the agent of the session
Threads == {1, 2}

\* a thread that is in no call
Idle == [pc |-> "idle", message |-> "", reason |-> "", priority |-> ""]

\* address of the list object MemoryManager._history: the attribute is
\* assigned once, in __init__, and the list is changed in place ever after
history_list == 1

\* the heap after construction: the empty history list, and no ticket
NewHeap == [lists |-> << <<>> >>, conversations |-> <<>>]

Init ==
  /\ human_takeover = FALSE
  /\ _history = <<>>
  /\ _intent_history = <<>>
  /\ _intent_counter = [i \in Intents |-> 0]
  /\ failed_ai_replies = 0
  /\ conversation_start = 0
  /\ long_term_memory = <<>>
  /\ _escalations = <<>>
  /\ storage_file = <<>>
  /\ storage_torn = FALSE
  /\ peer_store = NotStarted
  /\ heap = NewHeap
  /\ turns = [th \in Threads |-> Idle]
  /\ now = 0
  /\ result = NoResult
  /\ calls = 0

(***************************************************************************)
(* The clock: datetime.utcnow() returns a value that is not before the     *)
(* value of the previous read; one call of a handler reads it once         *)
(***************************************************************************)
utcnow == now..(IF now > MaxTime THEN now ELSE MaxTime)

(***************************************************************************)
(* memory_manager.py : conversation state                                  *)
(***************************************************************************)
\* the cap that drops the newest message
_add_message_drops_newest(history, role, content) ==
  LET h == Append(history, [role |-> role, content |-> content])
  IN  IF Len(h) > max_history THEN SubSeq(h, 1, max_history) ELSE h

\* lines 204-214
_add_message(history, role, content) ==
  LET h == Append(history, [role |-> role, content |-> content])
  IN  IF Len(h) > max_history THEN Tail(h) ELSE h

\* deque(maxlen=10).append
deque_append(d, x) ==
  LET e == Append(d, x)
  IN  IF Len(e) > intent_history_maxlen THEN Tail(e) ELSE e

get_intent_count(intent) == _intent_counter[intent]

(***************************************************************************)
(* What the handlers compute from the text of the message alone            *)
(***************************************************************************)
name_of == [m \in Messages \cup FraudMessages |-> extract_name(m)]
name_question_of == [m \in Messages \cup FraudMessages |-> _is_name_question(m)]
intent_of == [m \in Messages \cup FraudMessages |-> _detect_intent(m)]
decision_of == [m \in Messages \cup FraudMessages |-> should_escalate(m)]
small_talk_of == [m \in Messages \cup FraudMessages |-> is_small_talk(m)]
memory_text_of == [m \in Messages \cup FraudMessages |-> extract_memory_text(m)]
priority_of ==
  [r \in {HighReason, MediumReason, InfoReason, GeneralReason} |-> _decide_priority(r)]
answer_of == [r \in Replies |-> Strip(r)]

\* text of the i-th message of the earlier turns of a conversation
EarlierText(i) == "message " \o ToString(i)

memory_intent_of ==
  [m \in MemoryTexts \cup CountedTexts \cup {EarlierText(i) : i \in 1..max_history} |->
     _detect_intent(m)]

(***************************************************************************)
(* tools.py : ticket tool                                                  *)
(***************************************************************************)
_generate_ticket_id(t) == "TICKET-" \o ToString(t)

(***************************************************************************)
(* admin_store.py                                                          *)
(***************************************************************************)
Statuses == {"OPEN", "IN_PROGRESS", "RESOLVED"}

new_escalation(ticket_id, reason, priority, conversation, t) ==
  [ticket_id    |-> ticket_id,
   user_id      |-> user_id,
   reason       |-> reason,
   priority     |-> priority,
   status       |-> "OPEN",
   conversation |-> conversation,
   created_at   |-> t,
   updated_at   |-> t]

\* lines 49-52: the whole list is written
_save_to_disk(stored) == storage_file' = stored /\ storage_torn' = FALSE

\* the load that takes the records of the last complete write for the file
_load_from_disk_ignores_tear == storage_file

\* lines 36-47: a file that cannot be parsed is read as the empty list
_load_from_disk == IF storage_torn THEN <<>> ELSE storage_file

\* index of the first record with this ticket_id, 0 when there is none
find_ticket(ticket_id) ==
  IF \E i \in 1..Len(_escalations) : _escalations[i].ticket_id = ticket_id
  THEN CHOOSE i \in 1..Len(_escalations) :
         /\ _escalations[i].ticket_id = ticket_id
         /\ \A j \in 1..(i - 1) : _escalations[j].ticket_id # ticket_id
  ELSE 0

\* get_ticket returns None when no record has the id
NoTicket == [ticket_id |-> "None"]

\* lines 95-103
get_ticket(ticket_id) ==
  IF find_ticket(ticket_id) > 0 THEN _escalations[find_ticket(ticket_id)] ELSE NoTicket

(***************************************************************************)
(* agent.py : _handle_escalation, after add_user_message left the history  *)
(* at h                                                                    *)
(***************************************************************************)
escalation_reply(reason, priority, ticket_id) ==
  "This issue requires human assistance\n\nReason: " \o reason
    \o "\nPriority: " \o priority \o "\n\nTicket ID: " \o ticket_id

\* the escalation that takes the snapshot of the history after its own reply
\* was appended
_handle_escalation_snapshot_late(h, message, reason, priority) ==
  \E t \in utcnow :
    LET ticket_id == _generate_ticket_id(t)
        reply     == escalation_reply(reason, priority, ticket_id)
        stored    == Append(_escalations,
                            new_escalation(ticket_id, reason, priority,
                                           _add_message(h, "assistant", reply), t))
    IN  /\ now' = t
        /\ _escalations' = stored
        /\ _save_to_disk(stored)
        /\ human_takeover' = TRUE
        /\ _history' = _add_message(h, "assistant", reply)
        /\ result' = Returned("get_full_response", reply, TRUE)

\* the escalation that forgets to hand the conversation over
_handle_escalation_keeps_bot(h, message, reason, priority) ==
  \E t \in utcnow :
    LET ticket_id == _generate_ticket_id(t)
        stored    == Append(_escalations, new_escalation(ticket_id, reason, priority, h, t))
        reply     == escalation_reply(reason, priority, ticket_id)
    IN  /\ now' = t
        /\ _escalations' = stored
        /\ _save_to_disk(stored)
        /\ UNCHANGED human_takeover
        /\ _history' = _add_message(h, "assistant", reply)
        /\ result' = Returned("get_full_response", reply, TRUE)

_handle_escalation(h, message, reason, priority) ==
  \E t \in utcnow :
    LET ticket_id == _generate_ticket_id(t)
        stored    == Append(_escalations, new_escalation(ticket_id, reason, priority, h, t))
        reply     == escalation_reply(reason, priority, ticket_id)
    IN  /\ now' = t
        /\ _escalations' = stored
        /\ _save_to_disk(stored)
        /\ human_takeover' = TRUE
        /\ _history' = _add_message(h, "assistant", reply)
        /\ result' = Returned("get_full_response", reply, TRUE)

(***************************************************************************)
(* agent.py : get_full_response                                            *)
(***************************************************************************)
\* the short circuit that records the reply in the conversation
takeover_turn_records ==
  /\ result' = Returned("get_full_response", TakeoverReply, TRUE)
  /\ _history' = _add_message(_history, "assistant", TakeoverReply)
  /\ UNCHANGED <<human_takeover, _intent_history, _intent_counter, failed_ai_replies,
                 conversation_start, long_term_memory, store_vars, now>>

\* lines 77-84
takeover_turn ==
  /\ result' = Returned("get_full_response", TakeoverReply, TRUE)
  /\ UNCHANGED <<human_takeover, memory_vars, long_term_memory, store_vars, now>>

\* lines 89-107
identity_turn(name) ==
  LET reply == "Nice to meet you, " \o name
  IN  /\ long_term_memory' = Append(long_term_memory, "User name is " \o name)
      /\ _history' = _add_message(_history, "assistant", reply)
      /\ result' = Returned("get_full_response", reply, FALSE)
      /\ UNCHANGED <<human_takeover, _intent_history, _intent_counter, failed_ai_replies,
                     conversation_start, store_vars, now>>

\* what get_relevant_memory("user name", k=1) may return: nothing from an
\* empty store, else the one stored text the similarity search ranks first
recalled_replies ==
  IF long_term_memory = <<>>
  THEN {NotToldReply}
  ELSE {"Yes I remember your name. Your name is **"
          \o Replace(long_term_memory[i], "User name is ", "") \o "**."
        : i \in 1..Len(long_term_memory)}

\* lines 112-129; the retrieval raises or returns
name_recall_turn ==
  \/ /\ result' = Raised("get_full_response", "retrieval")
     /\ UNCHANGED <<human_takeover, memory_vars, long_term_memory, store_vars, now>>
  \/ \E reply \in recalled_replies :
       /\ _history' = _add_message(_history, "assistant", reply)
       /\ result' = Returned("get_full_response", reply, FALSE)
       /\ UNCHANGED <<human_takeover, _intent_history, _intent_counter, failed_ai_replies,
                      conversation_start, long_term_memory, store_vars, now>>

\* the capabilities called by lines 179-239: the small talk bypass calls the
\* generation only, the full pipeline calls the two retrievals, then the
\* generation
capabilities_of(user_message) ==
  IF small_talk_of[user_message] THEN {"generation"} ELSE {"retrieval", "generation"}

\* the generation that hands the conversation to a human when the answer is
\* "I don't know"
generation_turn_hands_over(h, user_message) ==
  \/ \E capability \in capabilities_of(user_message) :
       /\ _history' = h
       /\ result' = Raised("get_full_response", capability)
       /\ UNCHANGED <<human_takeover, store_vars, now>>
  \/ \E content \in Replies :
       IF answer_of[content] = "I don't know"
       THEN _handle_escalation(h, user_message, "AI could not answer", "HIGH")
       ELSE /\ _history' = _add_message(h, "assistant", answer_of[content])
            /\ result' = Returned("get_full_response", answer_of[content], FALSE)
            /\ UNCHANGED <<human_takeover, store_vars, now>>

\* lines 179-239, after add_user_message left the history at h: each
\* capability returns or raises, and a raised error leaves the handler at once
generation_turn(h, user_message) ==
  \/ \E capability \in capabilities_of(user_message) :
       /\ _history' = h
       /\ result' = Raised("get_full_response", capability)
       /\ UNCHANGED <<human_takeover, store_vars, now>>
  \/ \E content \in Replies :
       /\ _history' = _add_message(h, "assistant", answer_of[content])
       /\ result' = Returned("get_full_response", answer_of[content], FALSE)
       /\ UNCHANGED <<human_takeover, store_vars, now>>

\* the repeated-intent test that fires one message late
repeated_intent_late(counter) ==
  counter["REFUND_DEMAND"] > 2 \/ counter["COMPLAINT"] > 2

\* the repeated-intent test that follows the refund demands only
repeated_intent_refund_only(counter) ==
  counter["REFUND_DEMAND"] >= 2

\* lines 149-152, on the counts after add_user_message
repeated_intent(counter) ==
  counter["REFUND_DEMAND"] >= 2 \/ counter["COMPLAINT"] >= 2

\* the checks with the pattern rule tried first
escalation_steps_pattern_first(h, user_message, counter) ==
  LET decision == decision_of[user_message]
  IN  IF decision.level = "HIGH"
      THEN _handle_escalation(h, user_message, decision.reason,
                              priority_of[decision.reason])
      ELSE IF repeated_intent(counter)
      THEN _handle_escalation(h, user_message, RepeatedReason, "HIGH")
      ELSE generation_turn(h, user_message)

\* the checks with every level above LOW handed to a human
escalation_steps_medium_too(h, user_message, counter) ==
  IF repeated_intent(counter)
  THEN _handle_escalation(h, user_message, RepeatedReason, "HIGH")
  ELSE LET decision == decision_of[user_message]
       IN  IF decision.level # "LOW"
           THEN _handle_escalation(h, user_message, decision.reason,
                                   priority_of[decision.reason])
           ELSE generation_turn(h, user_message)

\* the checks that decide the priority from the message of the user
escalation_steps_message_priority(h, user_message, counter) ==
  IF repeated_intent(counter)
  THEN _handle_escalation(h, user_message, RepeatedReason, _decide_priority(user_message))
  ELSE LET decision == decision_of[user_message]
       IN  IF decision.level = "HIGH"
           THEN _handle_escalation(h, user_message, decision.reason,
                                   _decide_priority(user_message))
           ELSE generation_turn(h, user_message)

\* lines 146-239, after add_user_message left the history at h and the
\* counts at counter
escalation_steps(h, user_message, counter) ==
  IF repeated_intent(counter)
  THEN _handle_escalation(h, user_message, RepeatedReason, "HIGH")
  ELSE LET decision == decision_of[user_message]
       IN  IF decision.level = "HIGH"
           THEN _handle_escalation(h, user_message, decision.reason,
                                   priority_of[decision.reason])
           ELSE generation_turn(h, user_message)

\* lines 134-239
classified_turn(user_message) ==
  LET intent  == intent_of[user_message]
      h       == _add_message(_history, "user", user_message)
      counter == [_intent_counter EXCEPT ![intent] = @ + 1]
  IN  /\ _intent_history' = deque_append(_intent_history, intent)
      /\ _intent_counter' = counter
      /\ long_term_memory' =
           IF should_store_long_term(intent)
           THEN Append(long_term_memory, memory_text_of[user_message])
           ELSE long_term_memory
      /\ UNCHANGED <<failed_ai_replies, conversation_start>>
      /\ escalation_steps(h, user_message, counter)

\* the handler without the name-recall fast path
get_full_response_no_recall(user_message) ==
  IF human_takeover
  THEN takeover_turn
  ELSE IF name_of[user_message] # NoName
  THEN identity_turn(name_of[user_message])
  ELSE classified_turn(user_message)

\* the handler that hands a conversation over once its SLA time is up
get_full_response_escalates_on_breach(user_message) ==
  IF human_takeover
  THEN takeover_turn
  ELSE IF now - conversation_start >= sla_seconds
  THEN /\ _handle_escalation(_add_message(_history, "user", user_message), user_message,
                             "SLA breached", "HIGH")
       /\ UNCHANGED <<_intent_history, _intent_counter, failed_ai_replies,
                      conversation_start, long_term_memory>>
  ELSE IF name_of[user_message] # NoName
  THEN identity_turn(name_of[user_message])
  ELSE IF name_question_of[user_message]
  THEN name_recall_turn
  ELSE classified_turn(user_message)

\* lines 71-239
get_full_response(user_message) ==
  IF human_takeover
  THEN takeover_turn
  ELSE IF name_of[user_message] # NoName
  THEN identity_turn(name_of[user_message])
  ELSE IF name_question_of[user_message]
  THEN name_recall_turn
  ELSE classified_turn(user_message)

\* the reset of the conversation state alone: MemoryManager.clear without
\* line 280
clear_memory_keeps_takeover ==
  \E t \in utcnow :
    /\ _history' = <<>>
    /\ _intent_history' = <<>>
    /\ _intent_counter' = [i \in Intents |-> 0]
    /\ failed_ai_replies' = 0
    /\ conversation_start' = t
    /\ now' = t
    /\ UNCHANGED human_takeover
    /\ result' = Returned("clear_memory", "", FALSE)
    /\ UNCHANGED <<long_term_memory, store_vars>>

\* lines 278-280, with MemoryManager.clear
clear_memory ==
  \E t \in utcnow :
    /\ _history' = <<>>
    /\ _intent_history' = <<>>
    /\ _intent_counter' = [i \in Intents |-> 0]
    /\ failed_ai_replies' = 0
    /\ conversation_start' = t
    /\ now' = t
    /\ human_takeover' = FALSE
    /\ result' = Returned("clear_memory", "", FALSE)
    /\ UNCHANGED <<long_term_memory, store_vars>>

(***************************************************************************)
(* admin_store.py : operations of the admin panel                          *)
(***************************************************************************)
\* ticket ids an admin may name: every id the clock can produce, and one
\* that no ticket has
TicketIds == {_generate_ticket_id(t) : t \in 0..MaxTime} \cup {"TICKET-none"}

\* status texts an admin may pass
StatusInputs == {"OPEN", "IN_PROGRESS", "resolved", "CLOSED"}

\* the update that gives a resolved conversation back to the bot
update_status_releases(ticket_id, status_input) ==
  LET status == Upper(status_input)
      i      == find_ticket(ticket_id)
  IN  /\ IF status \in Statuses /\ i > 0
         THEN \E t \in utcnow :
                LET stored == [_escalations EXCEPT ![i].status = status,
                                                   ![i].updated_at = t]
                IN  /\ now' = t
                    /\ _escalations' = stored
                    /\ _save_to_disk(stored)
                    /\ human_takeover' = (human_takeover /\ status # "RESOLVED")
                    /\ result' = Returned("update_status", "", TRUE)
         ELSE /\ result' = Returned("update_status", "", FALSE)
              /\ UNCHANGED <<store_vars, now, human_takeover>>
      /\ UNCHANGED <<memory_vars, long_term_memory>>

\* the update that stamps the record before it looks at the status
update_status_touches(ticket_id, status_input) ==
  LET status == Upper(status_input)
      i      == find_ticket(ticket_id)
  IN  /\ IF i > 0
         THEN \E t \in utcnow :
                LET stored == [_escalations EXCEPT
                                 ![i].status = IF status \in Statuses THEN status ELSE @,
                                 ![i].updated_at = t]
                IN  /\ now' = t
                    /\ _escalations' = stored
                    /\ _save_to_disk(stored)
                    /\ result' = Returned("update_status", "", status \in Statuses)
         ELSE /\ result' = Returned("update_status", "", FALSE)
              /\ UNCHANGED <<store_vars, now>>
      /\ UNCHANGED <<human_takeover, memory_vars, long_term_memory>>

\* the update that stores the status as the caller spelled it
update_status_stores_input(ticket_id, status_input) ==
  LET status == Upper(status_input)
      i      == find_ticket(ticket_id)
  IN  /\ IF status \in Statuses /\ i > 0
         THEN \E t \in utcnow :
                LET stored == [_escalations EXCEPT ![i].status = status_input,
                                                   ![i].updated_at = t]
                IN  /\ now' = t
                    /\ _escalations' = stored
                    /\ _save_to_disk(stored)
                    /\ result' = Returned("update_status", "", TRUE)
         ELSE /\ result' = Returned("update_status", "", FALSE)
              /\ UNCHANGED <<store_vars, now>>
      /\ UNCHANGED <<human_takeover, memory_vars, long_term_memory>>

\* the update that lets a ticket move forward only: OPEN, IN_PROGRESS, RESOLVED
update_status_forward_only(ticket_id, status_input) ==
  LET status == Upper(status_input)
      i      == find_ticket(ticket_id)
      rank   == [s \in Statuses |->
                   IF s = "OPEN" THEN 1 ELSE IF s = "IN_PROGRESS" THEN 2 ELSE 3]
  IN  /\ IF status \in Statuses /\ i > 0 /\ rank[status] >= rank[_escalations[i].status]
         THEN \E t \in utcnow :
                LET stored == [_escalations EXCEPT ![i].status = status,
                                                   ![i].updated_at = t]
                IN  /\ now' = t
                    /\ _escalations' = stored
                    /\ _save_to_disk(stored)
                    /\ result' = Returned("update_status", "", TRUE)
         ELSE /\ result' = Returned("update_status", "", FALSE)
              /\ UNCHANGED <<store_vars, now>>
      /\ UNCHANGED <<human_takeover, memory_vars, long_term_memory>>

\* lines 109-127
update_status(ticket_id, status_input) ==
  LET status == Upper(status_input)
      i      == find_ticket(ticket_id)
  IN  /\ IF status \in Statuses /\ i > 0
         THEN \E t \in utcnow :
                LET stored == [_escalations EXCEPT ![i].status = status,
                                                   ![i].updated_at = t]
                IN  /\ now' = t
                    /\ _escalations' = stored
                    /\ _save_to_disk(stored)
                    /\ result' = Returned("update_status", "", TRUE)
         ELSE /\ result' = Returned("update_status", "", FALSE)
              /\ UNCHANGED <<store_vars, now>>
      /\ UNCHANGED <<human_takeover, memory_vars, long_term_memory>>

\* the reply put in front of the conversation
add_admin_reply_in_front(ticket_id, message) ==
  LET i == find_ticket(ticket_id)
  IN  /\ IF i > 0
         THEN \E t \in utcnow :
                LET stored ==
                      [_escalations EXCEPT
                         ![i].conversation = <<[role |-> "admin", content |-> message]>> \o @,
                         ![i].updated_at = t]
                IN  /\ now' = t
                    /\ _escalations' = stored
                    /\ _save_to_disk(stored)
                    /\ result' = Returned("add_admin_reply", "", TRUE)
         ELSE /\ result' = Returned("add_admin_reply", "", FALSE)
              /\ UNCHANGED <<store_vars, now>>
      /\ UNCHANGED <<human_takeover, memory_vars, long_term_memory>>

\* lines 133-150
add_admin_reply(ticket_id, message) ==
  LET i == find_ticket(ticket_id)
  IN  /\ IF i > 0
         THEN \E t \in utcnow :
                LET stored ==
                      [_escalations EXCEPT
                         ![i].conversation = Append(@, [role |-> "admin", content |-> message]),
                         ![i].updated_at = t]
                IN  /\ now' = t
                    /\ _escalations' = stored
                    /\ _save_to_disk(stored)
                    /\ result' = Returned("add_admin_reply", "", TRUE)
         ELSE /\ result' = Returned("add_admin_reply", "", FALSE)
              /\ UNCHANGED <<store_vars, now>>
      /\ UNCHANGED <<human_takeover, memory_vars, long_term_memory>>

(***************************************************************************)
(* Behaviours                                                              *)
(***************************************************************************)
\* the process is down: it was killed and the app was not started again
Crashed == result.op = "crash"

\* one more call, of at most n, on the running process
Budget(n) == ~Crashed /\ calls < n /\ calls' = calls + 1

UserTurn ==
  \E m \in Messages : Budget(MaxCalls) /\ get_full_response(m) /\ UNCHANGED other_vars

ClearMemory == ~Crashed /\ clear_memory /\ UNCHANGED calls /\ UNCHANGED other_vars

AdminStatus ==
  \E t \in TicketIds, s \in StatusInputs :
    Budget(MaxCalls) /\ update_status(t, s) /\ UNCHANGED other_vars

AdminReply ==
  \E t \in TicketIds, x \in AdminTexts :
    Budget(MaxCalls) /\ add_admin_reply(t, x) /\ UNCHANGED other_vars

\* one user session and the admin panel on the session's store
Next == UserTurn \/ ClearMemory \/ AdminStatus \/ AdminReply

Spec == Init /\ [][Next]_vars

(***************************************************************************)
(* A second session: app.py constructs one CustomerSupportAgent per        *)
(* session, and each agent constructs its own AdminStore on the one file   *)
(* admin_escalations.json.  Of the second session the model keeps its      *)
(* store and the calls that reach it.                                      *)
(***************************************************************************)
peer_user_id == "peer_user"

\* what the agent of the second session passes when it escalates
PeerConversations == {<<[role |-> "user", content |-> "I want a refund now"]>>}

\* index of the first record of a list with this ticket_id, 0 when none
find_in(escalations, ticket_id) ==
  IF \E i \in 1..Len(escalations) : escalations[i].ticket_id = ticket_id
  THEN CHOOSE i \in 1..Len(escalations) :
         /\ escalations[i].ticket_id = ticket_id
         /\ \A j \in 1..(i - 1) : escalations[j].ticket_id # ticket_id
  ELSE 0

session_vars == <<human_takeover, memory_vars, long_term_memory, _escalations, turns,
                  heap>>

\* agent.py line 46 with admin_store.py lines 27-30
peer_start ==
  /\ ~peer_store.started
  /\ peer_store' = [started |-> TRUE, _escalations |-> _load_from_disk]
  /\ UNCHANGED <<session_vars, storage_file, storage_torn, now, result>>

\* admin_store.py lines 58-82, called by _handle_escalation of the second agent
peer_add_escalation(reason, priority, conversation) ==
  /\ peer_store.started
  /\ \E t \in utcnow :
       LET escalation == [new_escalation(_generate_ticket_id(t), reason, priority,
                                         conversation, t) EXCEPT !.user_id = peer_user_id]
           stored     == Append(peer_store._escalations, escalation)
       IN  /\ now' = t
           /\ peer_store' = [peer_store EXCEPT !._escalations = stored]
           /\ _save_to_disk(stored)
           /\ result' = Returned("peer.add_escalation", "", FALSE)
  /\ UNCHANGED session_vars

\* admin_store.py lines 109-127, called by the admin panel of the second session
peer_update_status(ticket_id, status_input) ==
  LET status == Upper(status_input)
      i      == find_in(peer_store._escalations, ticket_id)
  IN  /\ peer_store.started
      /\ IF status \in Statuses /\ i > 0
         THEN \E t \in utcnow :
                LET stored == [peer_store._escalations EXCEPT ![i].status = status,
                                                              ![i].updated_at = t]
                IN  /\ now' = t
                    /\ peer_store' = [peer_store EXCEPT !._escalations = stored]
                    /\ _save_to_disk(stored)
                    /\ result' = Returned("peer.update_status", "", TRUE)
         ELSE /\ result' = Returned("peer.update_status", "", FALSE)
              /\ UNCHANGED <<peer_store, storage_file, storage_torn, now>>
      /\ UNCHANGED session_vars

\* admin_store.py lines 133-150, called by the admin panel of the second session
peer_add_admin_reply(ticket_id, message) ==
  LET i == find_in(peer_store._escalations, ticket_id)
  IN  /\ peer_store.started
      /\ IF i > 0
         THEN \E t \in utcnow :
                LET stored ==
                      [peer_store._escalations EXCEPT
                         ![i].conversation = Append(@, [role |-> "admin", content |-> message]),
                         ![i].updated_at = t]
                IN  /\ now' = t
                    /\ peer_store' = [peer_store EXCEPT !._escalations = stored]
                    /\ _save_to_disk(stored)
                    /\ result' = Returned("peer.add_admin_reply", "", TRUE)
         ELSE /\ result' = Returned("peer.add_admin_reply", "", FALSE)
              /\ UNCHANGED <<peer_store, storage_file, storage_torn, now>>
      /\ UNCHANGED session_vars

PeerStart == peer_start /\ UNCHANGED calls

PeerEscalation ==
  \E c \in PeerConversations :
    Budget(MaxCalls) /\ peer_add_escalation(HighReason, priority_of[HighReason], c)

PeerStatus ==
  \E t \in TicketIds, s \in StatusInputs : Budget(MaxCalls) /\ peer_update_status(t, s)

PeerReply ==
  \E t \in TicketIds, x \in AdminTexts : Budget(MaxCalls) /\ peer_add_admin_reply(t, x)

\* two sessions, each with its admin panel, on the one file
NextSessions == Next \/ PeerStart \/ PeerEscalation \/ PeerStatus \/ PeerReply

SpecSessions == Init /\ [][NextSessions]_vars

(***************************************************************************)
(* A crash of the process while a call writes the store, and the next      *)
(* start of the app                                                        *)
(***************************************************************************)
\* a call that writes the store (an escalating turn, an accepted
\* update_status or add_admin_reply) dies in _save_to_disk, lines 51-52,
\* after open(..., "w") emptied the file and before json.dump wrote it whole
crash_in_save ==
  /\ ~human_takeover \/ _escalations # <<>>
  /\ storage_torn' = TRUE
  /\ result' = Raised("crash", "_save_to_disk")
  /\ UNCHANGED <<human_takeover, memory_vars, long_term_memory, _escalations, storage_file,
                 peer_store, heap, turns, now>>

\* app.py lines 44-57 in a new process: a new session id, whose collection
\* of long-term memories is empty, and a new agent, whose AdminStore loads
\* the file
restart ==
  /\ Crashed
  /\ \E t \in utcnow :
       /\ now' = t
       /\ conversation_start' = t
  /\ human_takeover' = FALSE
  /\ _history' = <<>>
  /\ _intent_history' = <<>>
  /\ _intent_counter' = [i \in Intents |-> 0]
  /\ failed_ai_replies' = 0
  /\ long_term_memory' = <<>>
  /\ _escalations' = _load_from_disk
  /\ peer_store' = NotStarted
  /\ UNCHANGED heap
  /\ turns' = [th \in Threads |-> Idle]
  /\ result' = Returned("restart", "", FALSE)
  /\ UNCHANGED <<storage_file, storage_torn>>

CrashInSave == Budget(MaxCalls) /\ crash_in_save

Restart == restart /\ UNCHANGED calls

\* one session, its admin panel, and crashes of the process
NextCrash == Next \/ CrashInSave \/ Restart

SpecCrash == Init /\ [][NextCrash]_vars

(***************************************************************************)
(* Calls of get_full_response made at the same time on one agent.  The     *)
(* handler takes no lock, so a thread can be suspended between two of its  *)
(* statements while another thread runs; the steps below are the blocks of *)
(* the handler between which that happens.                                 *)
(***************************************************************************)
At(th, pc) == turns[th].pc = pc

Goto(th, pc) == turns' = [turns EXCEPT ![th].pc = pc]

Return(th) == turns' = [turns EXCEPT ![th] = Idle]

\* the thread enters get_full_response(m), line 71
begin_turn(th, m) ==
  /\ At(th, "idle")
  /\ turns' = [turns EXCEPT ![th] = [Idle EXCEPT !.pc = "takeover_test", !.message = m]]
  /\ UNCHANGED <<human_takeover, memory_vars, long_term_memory, store_vars, peer_store,
                 heap,
                 now, result>>

\* lines 77-84
takeover_test(th) ==
  /\ At(th, "takeover_test")
  /\ IF human_takeover
     THEN takeover_turn /\ Return(th)
     ELSE /\ Goto(th, "fast_paths")
          /\ UNCHANGED <<human_takeover, memory_vars, long_term_memory, store_vars, now,
                         result>>
  /\ UNCHANGED <<peer_store, heap>>

\* lines 89-129
fast_paths(th) ==
  LET m == turns[th].message
  IN  /\ At(th, "fast_paths")
      /\ IF name_of[m] # NoName
         THEN identity_turn(name_of[m]) /\ Return(th)
         ELSE IF name_question_of[m]
         THEN name_recall_turn /\ Return(th)
         ELSE /\ Goto(th, "save")
              /\ UNCHANGED <<human_takeover, memory_vars, long_term_memory, store_vars,
                             now, result>>
      /\ UNCHANGED <<peer_store, heap>>

\* lines 134-144
save_message(th) ==
  LET m      == turns[th].message
      intent == intent_of[m]
  IN  /\ At(th, "save")
      /\ _history' = _add_message(_history, "user", m)
      /\ _intent_history' = deque_append(_intent_history, intent)
      /\ _intent_counter' = [_intent_counter EXCEPT ![intent] = @ + 1]
      /\ long_term_memory' =
           IF should_store_long_term(intent)
           THEN Append(long_term_memory, memory_text_of[m])
           ELSE long_term_memory
      /\ Goto(th, "decide")
      /\ UNCHANGED <<human_takeover, failed_ai_replies, conversation_start, store_vars,
                     peer_store, heap, now, result>>

\* the tests of lines 149-152 and 165-166
decide(th) ==
  LET decision == decision_of[turns[th].message]
  IN  /\ At(th, "decide")
      /\ turns' =
           IF repeated_intent(_intent_counter)
           THEN [turns EXCEPT ![th].pc = "escalate", ![th].reason = RepeatedReason,
                              ![th].priority = "HIGH"]
           ELSE IF decision.level = "HIGH"
           THEN [turns EXCEPT ![th].pc = "escalate", ![th].reason = decision.reason,
                              ![th].priority = priority_of[decision.reason]]
           ELSE [turns EXCEPT ![th].pc = "generate"]
      /\ UNCHANGED <<human_takeover, memory_vars, long_term_memory, store_vars, peer_store,
                 heap,
                     now, result>>

\* lines 153-160 and 167-174, with _handle_escalation
escalate(th) ==
  /\ At(th, "escalate")
  /\ _handle_escalation(_history, turns[th].message, turns[th].reason, turns[th].priority)
  /\ Return(th)
  /\ UNCHANGED <<_intent_history, _intent_counter, failed_ai_replies, conversation_start,
                 long_term_memory, peer_store, heap>>

\* lines 179-239
generate(th) ==
  /\ At(th, "generate")
  /\ generation_turn(_history, turns[th].message)
  /\ Return(th)
  /\ UNCHANGED <<_intent_history, _intent_counter, failed_ai_replies, conversation_start,
                 long_term_memory, peer_store, heap>>

BeginTurn == \E th \in Threads, m \in Messages : Budget(MaxCalls) /\ begin_turn(th, m)

TakeoverTest == \E th \in Threads : takeover_test(th) /\ UNCHANGED calls

FastPaths == \E th \in Threads : fast_paths(th) /\ UNCHANGED calls

SaveMessage == \E th \in Threads : save_message(th) /\ UNCHANGED calls

Decide == \E th \in Threads : decide(th) /\ UNCHANGED calls

Escalate == \E th \in Threads : escalate(th) /\ UNCHANGED calls

Generate == \E th \in Threads : generate(th) /\ UNCHANGED calls

\* one agent called by two threads
NextConcurrent ==
  BeginTurn \/ TakeoverTest \/ FastPaths \/ SaveMessage \/ Decide \/ Escalate \/ Generate

SpecConcurrent == Init /\ [][NextConcurrent]_vars

\* memory_manager.py lines 63-71
add_user_message(content) ==
  LET intent == memory_intent_of[content]
  IN  /\ _history' = _add_message(_history, "user", content)
      /\ _intent_history' = deque_append(_intent_history, intent)
      /\ _intent_counter' = [_intent_counter EXCEPT ![intent] = @ + 1]
      /\ result' = Returned("add_user_message", intent, FALSE)
      /\ UNCHANGED <<failed_ai_replies, conversation_start, human_takeover,
                     long_term_memory, store_vars, now>>

\* the agent message that is classified and counted like a user message
add_agent_message_counted(content) ==
  LET intent == memory_intent_of[content]
  IN  /\ _history' = _add_message(_history, "assistant", content)
      /\ _intent_counter' = [_intent_counter EXCEPT ![intent] = @ + 1]
      /\ result' = Returned("add_agent_message", "", FALSE)
      /\ UNCHANGED <<_intent_history, failed_ai_replies, conversation_start,
                     human_takeover, long_term_memory, store_vars, now>>

\* memory_manager.py lines 73-75
add_agent_message(content) ==
  /\ _history' = _add_message(_history, "assistant", content)
  /\ result' = Returned("add_agent_message", "", FALSE)
  /\ UNCHANGED <<_intent_history, _intent_counter, failed_ai_replies, conversation_start,
                 human_takeover, long_term_memory, store_vars, now>>

\* the conversation memory alone: the messages of the earlier turns, a user
\* message and a reply in turn, then any calls
EarlierAdd ==
  /\ calls = 0
  /\ Len(_history) < max_history
  /\ LET i == Len(_history) + 1
     IN  IF i % 2 = 1
         THEN add_user_message(EarlierText(i))
         ELSE add_agent_message(EarlierText(i))
  /\ UNCHANGED calls
  /\ UNCHANGED other_vars

AddUser ==
  \E m \in MemoryTexts : Budget(MaxAdds) /\ add_user_message(m) /\ UNCHANGED other_vars

AddAgent ==
  \E m \in MemoryTexts : Budget(MaxAdds) /\ add_agent_message(m) /\ UNCHANGED other_vars

NextMemory == EarlierAdd \/ AddUser \/ AddAgent

SpecMemory == Init /\ [][NextMemory]_vars

\* the user session alone, one turn longer
LongUserTurn ==
  \E m \in Messages : Budget(MaxCalls + 1) /\ get_full_response(m) /\ UNCHANGED other_vars

NextTurns == LongUserTurn \/ ClearMemory

SpecTurns == Init /\ [][NextTurns]_vars

(***************************************************************************)
(* The user session with a long-term store that may fail                   *)
(***************************************************************************)
\* agent.py lines 134-144 when long_term_memory.add_memory raises: the user
\* message is stored and counted, and the error leaves the handler before
\* the escalation rules are tried
add_memory_raises(user_message) ==
  LET intent == intent_of[user_message]
  IN  /\ ~human_takeover
      /\ name_of[user_message] = NoName
      /\ ~name_question_of[user_message]
      /\ should_store_long_term(intent)
      /\ _history' = _add_message(_history, "user", user_message)
      /\ _intent_history' = deque_append(_intent_history, intent)
      /\ _intent_counter' = [_intent_counter EXCEPT ![intent] = @ + 1]
      /\ result' = Raised("get_full_response", "long_term_memory")
      /\ UNCHANGED <<failed_ai_replies, conversation_start, human_takeover,
                     long_term_memory, store_vars, now>>

AbortedTurn ==
  \E m \in Messages : Budget(MaxCalls + 1) /\ add_memory_raises(m) /\ UNCHANGED other_vars

NextAbort == LongUserTurn \/ ClearMemory \/ AbortedTurn

SpecAbort == Init /\ [][NextAbort]_vars

(***************************************************************************)
(* The user session of a user who reports a fraud                          *)
(***************************************************************************)
FraudTurn ==
  \E m \in FraudMessages :
    Budget(MaxCalls + 1) /\ get_full_response(m) /\ UNCHANGED other_vars

NextFraud == FraudTurn \/ ClearMemory

SpecFraud == Init /\ [][NextFraud]_vars

(***************************************************************************)
(* The user session over a long time: the SLA clock of the conversation    *)
(***************************************************************************)
\* memory_manager.py lines 116-118
is_sla_breached ==
  \E t \in utcnow :
    /\ now' = t
    /\ result' = [op        |-> "is_sla_breached",
                  raised    |-> FALSE,
                  output    |-> "",
                  escalated |-> FALSE,
                  breached  |-> t - conversation_start >= sla_seconds]
    /\ UNCHANGED <<human_takeover, memory_vars, long_term_memory, store_vars>>

\* the session stays idle until the SLA time is up, or one second less
wait ==
  /\ now <= MaxTime
  /\ \E d \in {sla_seconds - 1, sla_seconds} : now' = now + d
  /\ UNCHANGED <<human_takeover, memory_vars, long_term_memory, store_vars, result>>

SlaCheck == Budget(MaxCalls) /\ is_sla_breached /\ UNCHANGED other_vars

Wait == ~Crashed /\ wait /\ UNCHANGED calls /\ UNCHANGED other_vars

NextSla == UserTurn \/ ClearMemory \/ SlaCheck \/ Wait

SpecSla == Init /\ [][NextSla]_vars

(***************************************************************************)
(* The ticket store alone: the operations of AdminStore called one after   *)
(* the other on one store                                                  *)
(***************************************************************************)
\* admin_store.py lines 58-82, with the ticket id of tools.py for the time read
add_escalation(reason, priority, conversation) ==
  \E t \in utcnow :
    LET stored == Append(_escalations,
                         new_escalation(_generate_ticket_id(t), reason, priority,
                                        conversation, t))
    IN  /\ now' = t
        /\ _escalations' = stored
        /\ _save_to_disk(stored)
        /\ result' = Returned("add_escalation", "", FALSE)
        /\ UNCHANGED <<human_takeover, memory_vars, long_term_memory>>

\* outcome of a call that returns a list or a dict
ReturnedValue(op, value) ==
  [op |-> op, raised |-> FALSE, output |-> "", escalated |-> FALSE, value |-> value]

\* a call that reads the store
reads_store == UNCHANGED <<human_takeover, memory_vars, long_term_memory, store_vars, now>>

\* the place of x in a list sorted latest first: behind every record that is
\* not older, as the stable sort of sorted(..., reverse=True) leaves it
InsertLatestFirst(sorted, x) ==
  LET older == {i \in 1..Len(sorted) : sorted[i].created_at < x.created_at}
      k     == IF older = {} THEN Len(sorted) + 1
               ELSE CHOOSE i \in older : \A j \in older : i <= j
  IN  SubSeq(sorted, 1, k - 1) \o <<x>> \o SubSeq(sorted, k, Len(sorted))

RECURSIVE SortedLatestFirst(_)
SortedLatestFirst(records) ==
  IF records = <<>> THEN <<>>
  ELSE InsertLatestFirst(SortedLatestFirst(SubSeq(records, 1, Len(records) - 1)),
                         records[Len(records)])

\* the list in the order of the store
list_escalations_in_store_order ==
  /\ result' = ReturnedValue("list_escalations", _escalations)
  /\ reads_store

\* lines 84-93
list_escalations ==
  /\ result' = ReturnedValue("list_escalations", SortedLatestFirst(_escalations))
  /\ reads_store

RECURSIVE Tally(_, _)
\* counts[k] = counts.get(k, 0) + 1 for each key of the list, in order
Tally(counts, keys) ==
  IF keys = <<>> THEN counts
  ELSE LET k == Head(keys)
       IN  Tally(IF k \in DOMAIN counts
                 THEN [counts EXCEPT ![k] = @ + 1]
                 ELSE counts @@ (k :> 1),
                 Tail(keys))

\* the count that starts from an empty dict
count_by_status_keys_on_demand ==
  /\ result' = ReturnedValue("count_by_status",
                             Tally(<<>>, [i \in 1..Len(_escalations) |->
                                            _escalations[i].status]))
  /\ reads_store

\* lines 156-166; counts[esc["status"]] += 1 raises KeyError for a status
\* that is not a key of the dict
count_by_status ==
  /\ IF \A i \in 1..Len(_escalations) : _escalations[i].status \in Statuses
     THEN result' = ReturnedValue("count_by_status",
                                  Tally([s \in Statuses |-> 0],
                                        [i \in 1..Len(_escalations) |->
                                           _escalations[i].status]))
     ELSE result' = Raised("count_by_status", "KeyError")
  /\ reads_store

\* lines 168-179
count_by_priority ==
  /\ result' = ReturnedValue("count_by_priority",
                             Tally(<<>>, [i \in 1..Len(_escalations) |->
                                            _escalations[i].priority]))
  /\ reads_store

\* status texts passed to the store: the three values and those of the panel
StoreStatusInputs == Statuses \cup StatusInputs

StoreAdd ==
  \E priority \in {"HIGH", "MEDIUM"} :
    /\ Budget(MaxCalls + 1)
    /\ add_escalation(HighReason, priority, <<[role |-> "user", content |-> "help"]>>)
    /\ UNCHANGED other_vars

StoreStatus ==
  \E t \in TicketIds, s \in StoreStatusInputs :
    Budget(MaxCalls + 1) /\ update_status(t, s) /\ UNCHANGED other_vars

StoreReply ==
  \E t \in TicketIds, x \in AdminTexts :
    Budget(MaxCalls + 1) /\ add_admin_reply(t, x) /\ UNCHANGED other_vars

StoreList == list_escalations /\ UNCHANGED calls /\ UNCHANGED other_vars

StoreCountStatus == count_by_status /\ UNCHANGED calls /\ UNCHANGED other_vars

StoreCountPriority == count_by_priority /\ UNCHANGED calls /\ UNCHANGED other_vars

NextStore ==
  StoreAdd \/ StoreStatus \/ StoreReply \/ StoreList \/ StoreCountStatus \/ StoreCountPriority

SpecStore == Init /\ [][NextStore]_vars

(***************************************************************************)
(* The lists of the conversation as objects: heap.lists[a] is the content  *)
(* of the list at address a, heap.conversations[i] the address of the list *)
(* that the i-th ticket holds as its conversation.  The messages are       *)
(* dicts that no code changes after their creation, so they are values.    *)
(***************************************************************************)
History == heap.lists[history_list]

Conversation(i) == heap.lists[heap.conversations[i]]

\* what a call on the lists leaves alone
lists_only ==
  UNCHANGED <<human_takeover, memory_vars, long_term_memory, store_vars, now,
              peer_store, turns>>

\* memory_manager.py lines 204-214 on the list object: append, and pop(0)
\* beyond max_history
append_to_history(lists, role, content) ==
  [lists EXCEPT ![history_list] = _add_message(@, role, content)]

\* get_history that hands out the list of the memory itself
get_history_same_list(lists) == [lists |-> lists, ref |-> history_list]

\* memory_manager.py lines 77-78: list(self._history) is a new list object
\* with the same messages
get_history(lists) ==
  [lists |-> Append(lists, lists[history_list]), ref |-> Len(lists) + 1]

\* memory_manager.py lines 63-75: add_user_message and add_agent_message
add_message_in_place(role, content) ==
  /\ heap' = [heap EXCEPT !.lists = append_to_history(@, role, content)]
  /\ result' = Returned(IF role = "user" THEN "add_user_message" ELSE "add_agent_message",
                        "", FALSE)
  /\ lists_only

\* agent.py lines 254-272: the ticket takes get_history() as its
\* conversation, then the reply is added to the memory
escalate_in_place ==
  LET copy  == get_history(heap.lists)
      reply == escalation_reply(HighReason, "MEDIUM", _generate_ticket_id(now))
  IN  /\ heap' = [lists         |-> append_to_history(copy.lists, "assistant", reply),
                  conversations |-> Append(heap.conversations, copy.ref)]
      /\ result' = Returned("_handle_escalation", reply, TRUE)
      /\ lists_only

\* admin_store.py lines 140-146: esc["conversation"].append(...)
admin_reply_in_place(i, message) ==
  /\ heap' = [heap EXCEPT !.lists[heap.conversations[i]] =
                            Append(@, [role |-> "admin", content |-> message])]
  /\ result' = Returned("add_admin_reply", "", TRUE)
  /\ lists_only

\* memory_manager.py line 86: self._history.clear()
clear_in_place ==
  /\ heap' = [heap EXCEPT !.lists[history_list] = <<>>]
  /\ result' = Returned("clear", "", FALSE)
  /\ lists_only

\* the messages of the earlier turns, a user message and a reply in turn
SnapshotEarlier ==
  /\ calls = 0
  /\ Len(History) < max_history
  /\ LET i == Len(History) + 1
     IN  add_message_in_place(IF i % 2 = 1 THEN "user" ELSE "assistant", EarlierText(i))
  /\ UNCHANGED calls

SnapshotAdd ==
  \E role \in {"user", "assistant"}, m \in MemoryTexts :
    Budget(MaxAdds) /\ add_message_in_place(role, m)

SnapshotEscalate == Budget(MaxAdds) /\ escalate_in_place

SnapshotReply ==
  \E i \in 1..Len(heap.conversations), x \in AdminTexts :
    Budget(MaxAdds) /\ admin_reply_in_place(i, x)

SnapshotClear == Budget(MaxAdds) /\ clear_in_place

NextSnapshot ==
  SnapshotEarlier \/ SnapshotAdd \/ SnapshotEscalate \/ SnapshotReply \/ SnapshotClear

SpecSnapshot == Init /\ [][NextSnapshot]_vars

(***************************************************************************)
(* The intent classifier alone: _detect_intent applied to messages put     *)
(* together from phrases                                                   *)
(***************************************************************************)
\* the phrases a message may hold, in the order in which they follow each
\* other in it, and what each phrase brings to the message
Phrases ==
  <<[text |-> "hello",              brings |-> {}],
    [text |-> "i am angry",         brings |-> {"complaint"}],
    [text |-> "need a human agent", brings |-> {"human"}],
    [text |-> "not happy",          brings |-> {"complaint"}],
    [text |-> "refund",             brings |-> {"refund"}],
    [text |-> "immediately",        brings |-> {"demand"}],
    [text |-> "my name is Rahim",   brings |-> {"name"}]>>

RECURSIVE JoinFrom(_, _)
\* the phrases of chosen from the i-th on, separated by one space
JoinFrom(chosen, i) ==
  IF i > Len(Phrases) THEN ""
  ELSE LET rest == JoinFrom(chosen, i + 1)
       IN  IF i \notin chosen THEN rest
           ELSE IF rest = "" THEN Phrases[i].text
           ELSE Phrases[i].text \o " " \o rest

\* the message of the chosen phrases, in capitals when shouted
PhraseMessage(chosen, shouted) ==
  IF shouted THEN Upper(JoinFrom(chosen, 1)) ELSE JoinFrom(chosen, 1)

\* memory_manager.py line 68: add_user_message classifies the message; one
\* message is classified in a behaviour
Classify ==
  \E chosen \in SUBSET (1..Len(Phrases)), shouted \in BOOLEAN :
    /\ calls = 0
    /\ calls' = 1
    /\ result' = [op        |-> "_detect_intent",
                  raised    |-> FALSE,
                  output    |-> _detect_intent(PhraseMessage(chosen, shouted)),
                  escalated |-> FALSE,
                  chosen    |-> chosen,
                  shouted   |-> shouted]
    /\ UNCHANGED <<human_takeover, memory_vars, long_term_memory, store_vars, other_vars,
                   now>>

NextIntent == Classify

SpecIntent == Init /\ [][NextIntent]_vars

(***************************************************************************)
(* The pattern rule alone: should_escalate applied to messages put         *)
(* together from phrases                                                   *)
(***************************************************************************)
\* the phrases a message may hold, in this order, and the tier whose
\* pattern each phrase matches ("" for none: "legal" is no word of the
\* first phrase)
PatternPhrases ==
  <<[text |-> "illegally charged",       tier |-> ""],
    [text |-> "what does a refund cost", tier |-> "LOW"],
    [text |-> "refund policy",           tier |-> "LOW"],
    [text |-> "payment issue",           tier |-> "MEDIUM"],
    [text |-> "refund steps",            tier |-> "MEDIUM"],
    [text |-> "this is a scam",          tier |-> "HIGH"],
    [text |-> "talk to human",           tier |-> "HIGH"]>>

RECURSIVE JoinPatternPhrases(_, _)
\* the phrases of chosen from the i-th on, separated by one space
JoinPatternPhrases(chosen, i) ==
  IF i > Len(PatternPhrases) THEN ""
  ELSE LET rest == JoinPatternPhrases(chosen, i + 1)
       IN  IF i \notin chosen THEN rest
           ELSE IF rest = "" THEN PatternPhrases[i].text
           ELSE PatternPhrases[i].text \o " " \o rest

\* the message of the chosen phrases, in capitals when shouted
PatternMessage(chosen, shouted) ==
  IF shouted THEN Upper(JoinPatternPhrases(chosen, 1)) ELSE JoinPatternPhrases(chosen, 1)

\* agent.py line 165: the turn asks the rule for the level of the message;
\* one message is put to the rule in a behaviour
PatternRule ==
  \E chosen \in SUBSET (1..Len(PatternPhrases)), shouted \in BOOLEAN :
    /\ calls = 0
    /\ calls' = 1
    /\ result' = [op        |-> "should_escalate",
                  raised    |-> FALSE,
                  output    |-> "",
                  escalated |-> FALSE,
                  value     |-> should_escalate(PatternMessage(chosen, shouted)),
                  chosen    |-> chosen,
                  shouted   |-> shouted]
    /\ UNCHANGED <<human_takeover, memory_vars, long_term_memory, store_vars, other_vars,
                   now>>

NextPattern == PatternRule

SpecPattern == Init /\ [][NextPattern]_vars

(***************************************************************************)
(* One ticket store called by two threads: the statements of each          *)
(* operation of AdminStore, and the lock of the store                      *)
(***************************************************************************)
\* the positions of a thread that holds self._lock
InLock == {"locked", "save", "dump", "release"}

\* the lock that lets every thread in
lock_free_always(th) == TRUE

\* admin_store.py lines 80, 88, 99, 119, 137: `with self._lock` lets the
\* thread in when no other thread holds the lock
lock_free_for(th) == \A other \in Threads \ {th} : turns[other].pc \notin InLock

\* the calls made on the store
StoreCalls ==
  {[op |-> "add_escalation", ticket_id |-> "", arg |-> ""],
   [op |-> "list_escalations", ticket_id |-> "", arg |-> ""]}
    \cup {[op |-> "update_status", ticket_id |-> t, arg |-> s] :
            t \in TicketIds, s \in {"resolved", "CLOSED"}}
    \cup {[op |-> "add_admin_reply", ticket_id |-> t, arg |-> x] :
            t \in TicketIds, x \in AdminTexts}

\* a thread in the call c, about to take the lock
Entered(c, t) ==
  [pc |-> "acquire", op |-> c.op, ticket_id |-> c.ticket_id, arg |-> c.arg, t |-> t,
   ok |-> FALSE]

\* the statements before `with self._lock`: lines 69-78 build the record of
\* add_escalation, lines 114-117 upper-case the status and return False for
\* one that is not allowed
EnterStore ==
  \E th \in Threads, c \in StoreCalls :
    /\ At(th, "idle")
    /\ Budget(MaxCalls + 1)
    /\ IF c.op = "update_status" /\ Upper(c.arg) \notin Statuses
       THEN /\ result' = Returned("update_status", "", FALSE)
            /\ UNCHANGED <<turns, now>>
       ELSE IF c.op = "add_escalation"
       THEN \E t \in utcnow :
              /\ now' = t
              /\ turns' = [turns EXCEPT
                             ![th] = Entered([c EXCEPT !.ticket_id = _generate_ticket_id(t)], t)]
              /\ UNCHANGED result
       ELSE /\ turns' = [turns EXCEPT ![th] = Entered([c EXCEPT !.arg = Upper(c.arg)], now)]
            /\ UNCHANGED <<now, result>>
    /\ UNCHANGED <<human_takeover, memory_vars, long_term_memory, store_vars, peer_store,
                   heap>>

\* `with self._lock`
AcquireLock ==
  \E th \in Threads :
    /\ At(th, "acquire")
    /\ lock_free_for(th)
    /\ Goto(th, "locked")
    /\ UNCHANGED <<human_takeover, memory_vars, long_term_memory, store_vars, peer_store,
                   heap, now, result, calls>>

\* the statements under the lock that read and change the list in memory:
\* lines 81, 89-93, 120-123, 138-147
InMemoryStep ==
  \E th \in Threads :
    LET c == turns[th]
        i == find_ticket(c.ticket_id)
    IN  /\ At(th, "locked")
        /\ IF c.op = "add_escalation"
           THEN /\ _escalations' =
                     Append(_escalations,
                            new_escalation(c.ticket_id, HighReason, "MEDIUM",
                                           <<[role |-> "user", content |-> "help"]>>, c.t))
                /\ Goto(th, "save")
                /\ UNCHANGED now
           ELSE IF c.op = "list_escalations" \/ i = 0
           THEN /\ turns' = [turns EXCEPT ![th].pc = "release",
                                          ![th].ok = (c.op = "list_escalations")]
                /\ UNCHANGED <<_escalations, now>>
           ELSE \E t \in utcnow :
                  /\ now' = t
                  /\ _escalations' =
                       IF c.op = "update_status"
                       THEN [_escalations EXCEPT ![i].status = c.arg, ![i].updated_at = t]
                       ELSE [_escalations EXCEPT
                               ![i].conversation =
                                 Append(@, [role |-> "admin", content |-> c.arg]),
                               ![i].updated_at = t]
                  /\ Goto(th, "save")
        /\ UNCHANGED <<human_takeover, memory_vars, long_term_memory, storage_file,
                       storage_torn, peer_store, heap, result, calls>>

\* line 51: open(STORAGE_FILE, "w") empties the file
SaveOpen ==
  \E th \in Threads :
    /\ At(th, "save")
    /\ storage_torn' = TRUE
    /\ Goto(th, "dump")
    /\ UNCHANGED <<human_takeover, memory_vars, long_term_memory, _escalations,
                   storage_file, peer_store, heap, now, result, calls>>

\* line 52: json.dump writes the whole list, and the file is closed
SaveDump ==
  \E th \in Threads :
    /\ At(th, "dump")
    /\ _save_to_disk(_escalations)
    /\ turns' = [turns EXCEPT ![th].pc = "release", ![th].ok = TRUE]
    /\ UNCHANGED <<human_takeover, memory_vars, long_term_memory, _escalations, peer_store,
                   heap, now, result, calls>>

\* the end of the with block gives the lock back, and the call returns
ReleaseLock ==
  \E th \in Threads :
    /\ At(th, "release")
    /\ result' = Returned(turns[th].op, "", turns[th].ok)
    /\ Return(th)
    /\ UNCHANGED <<human_takeover, memory_vars, long_term_memory, store_vars, peer_store,
                   heap, now, calls>>

NextLock == EnterStore \/ AcquireLock \/ InMemoryStep \/ SaveOpen \/ SaveDump \/ ReleaseLock

SpecLock == Init /\ [][NextLock]_vars

(***************************************************************************)
(* The conversation memory alone, every operation of its public interface  *)
(***************************************************************************)
\* memory_manager.py lines 85-90
clear ==
  \E t \in utcnow :
    /\ _history' = <<>>
    /\ _intent_history' = <<>>
    /\ _intent_counter' = [i \in Intents |-> 0]
    /\ failed_ai_replies' = 0
    /\ conversation_start' = t
    /\ now' = t
    /\ result' = Returned("clear", "", FALSE)
    /\ UNCHANGED <<human_takeover, long_term_memory, store_vars>>

\* lines 106-107
mark_failed_ai_reply ==
  /\ failed_ai_replies' = failed_ai_replies + 1
  /\ result' = Returned("mark_failed_ai_reply", "", FALSE)
  /\ UNCHANGED <<_history, _intent_history, _intent_counter, conversation_start,
                 human_takeover, long_term_memory, store_vars, now>>

\* lines 109-110
reset_failed_ai_replies ==
  /\ failed_ai_replies' = 0
  /\ result' = Returned("reset_failed_ai_replies", "", FALSE)
  /\ UNCHANGED <<_history, _intent_history, _intent_counter, conversation_start,
                 human_takeover, long_term_memory, store_vars, now>>

\* lines 120-121
reset_sla ==
  \E t \in utcnow :
    /\ conversation_start' = t
    /\ now' = t
    /\ result' = Returned("reset_sla", "", FALSE)
    /\ UNCHANGED <<_history, _intent_history, _intent_counter, failed_ai_replies,
                   human_takeover, long_term_memory, store_vars>>

ManagerAddUser ==
  \E m \in MemoryTexts \cup CountedTexts :
    Budget(MaxAdds) /\ add_user_message(m) /\ UNCHANGED other_vars

ManagerAddAgent ==
  \E m \in MemoryTexts \cup CountedTexts :
    Budget(MaxAdds) /\ add_agent_message(m) /\ UNCHANGED other_vars

ManagerClear == Budget(MaxAdds) /\ clear /\ UNCHANGED other_vars

\* lines 96-97
ManagerGetIntentCount ==
  \E intent \in Intents :
    /\ Budget(MaxAdds)
    /\ result' = ReturnedValue("get_intent_count", get_intent_count(intent))
    /\ UNCHANGED <<human_takeover, memory_vars, long_term_memory, store_vars, now>>
    /\ UNCHANGED other_vars

ManagerMarkFailed == Budget(MaxAdds) /\ mark_failed_ai_reply /\ UNCHANGED other_vars

ManagerResetFailed == Budget(MaxAdds) /\ reset_failed_ai_replies /\ UNCHANGED other_vars

ManagerSlaCheck == Budget(MaxAdds) /\ is_sla_breached /\ UNCHANGED other_vars

ManagerResetSla == Budget(MaxAdds) /\ reset_sla /\ UNCHANGED other_vars

NextManager ==
  \/ ManagerAddUser
  \/ ManagerAddAgent
  \/ ManagerClear
  \/ ManagerGetIntentCount
  \/ ManagerMarkFailed
  \/ ManagerResetFailed
  \/ ManagerSlaCheck
  \/ ManagerResetSla

SpecManager == Init /\ [][NextManager]_vars

(***************************************************************************)
(* The priority of a ticket alone: _decide_priority applied to reasons put *)
(* together from phrases                                                   *)
(***************************************************************************)
\* the phrases a reason may hold, in this order, and the priority whose
\* keyword each phrase holds ("" for none)
ReasonPhrases ==
  <<[text |-> "general query",     keyword |-> ""],
    [text |-> "user was refunded", keyword |-> "MEDIUM"],
    [text |-> "billing",           keyword |-> "MEDIUM"],
    [text |-> "payment issue",     keyword |-> "MEDIUM"],
    [text |-> "fraud",             keyword |-> "HIGH"],
    [text |-> "scammers",          keyword |-> "HIGH"],
    [text |-> "account hacked",    keyword |-> "HIGH"]>>

RECURSIVE JoinReasonPhrases(_, _)
\* the phrases of chosen from the i-th on, separated by one space
JoinReasonPhrases(chosen, i) ==
  IF i > Len(ReasonPhrases) THEN ""
  ELSE LET rest == JoinReasonPhrases(chosen, i + 1)
       IN  IF i \notin chosen THEN rest
           ELSE IF rest = "" THEN ReasonPhrases[i].text
           ELSE ReasonPhrases[i].text \o " " \o rest

\* the reason of the chosen phrases, in capitals when shouted
ReasonText(chosen, shouted) ==
  IF shouted THEN Upper(JoinReasonPhrases(chosen, 1)) ELSE JoinReasonPhrases(chosen, 1)

\* agent.py line 171: the priority of one reason is decided in a behaviour
DecidePriority ==
  \E chosen \in SUBSET (1..Len(ReasonPhrases)), shouted \in BOOLEAN :
    /\ calls = 0
    /\ calls' = 1
    /\ result' = [op        |-> "_decide_priority",
                  raised    |-> FALSE,
                  output    |-> _decide_priority(ReasonText(chosen, shouted)),
                  escalated |-> FALSE,
                  chosen    |-> chosen,
                  shouted   |-> shouted]
    /\ UNCHANGED <<human_takeover, memory_vars, long_term_memory, store_vars, other_vars,
                   now>>

NextPriority == DecidePriority

SpecPriority == Init /\ [][NextPriority]_vars

(***************************************************************************)
(* Vocabulary of the properties                                            *)
(***************************************************************************)
\* the step is a call of get_full_response / of clear_memory
IsTurn == calls' = calls + 1 /\ result'.op = "get_full_response"
IsClear == result'.op = "clear_memory" /\ calls' = calls

\* the step appends exactly one record to the ticket store
AddsOneTicket ==
  /\ Len(_escalations') = Len(_escalations) + 1
  /\ SubSeq(_escalations', 1, Len(_escalations)) = _escalations

\* the step escalates: one OPEN ticket with this reason and priority is
\* stored, the conversation is handed over, the reply says so
Escalates(reason, priority) ==
  /\ AddsOneTicket
  /\ _escalations'[Len(_escalations')].reason = reason
  /\ _escalations'[Len(_escalations')].priority = priority
  /\ _escalations'[Len(_escalations')].status = "OPEN"
  /\ storage_file' = _escalations'
  /\ human_takeover'
  /\ result'.raised = FALSE
  /\ result'.escalated

\* the message takes neither fast path
IsClassified(m) == name_of[m] = NoName /\ ~name_question_of[m]

\* the user message that triggered a ticket: the last of its snapshot
Trigger(ticket) == ticket.conversation[Len(ticket.conversation)].content

\* the priorities whose keywords the chosen phrases of a reason hold
KeywordsOf(chosen) == {ReasonPhrases[i].keyword : i \in chosen}

\* the bounds of the two counts that the repeated-intent rule follows
CountsInBounds ==
  \A i \in {"REFUND_DEMAND", "COMPLAINT"} :
    /\ get_intent_count(i) <= 2
    /\ ~human_takeover => get_intent_count(i) < 2

\* the ticket stored last
LastTicket == _escalations[Len(_escalations)]

\* what the escalation rules read and write: the takeover flag and the counts
DecisionState == [takeover |-> human_takeover, counts |-> _intent_counter]

NoEscalation(next) == [escalates |-> FALSE, reason |-> "", priority |-> "", next |-> next]

\* what a turn with message m decides in decision state d, computed from d
\* and m alone: whether it escalates, with which reason and priority, and the
\* decision state it leaves
DecisionOf(d, m) ==
  IF d.takeover \/ ~IsClassified(m)
  THEN NoEscalation(d)
  ELSE LET counts == [d.counts EXCEPT ![intent_of[m]] = @ + 1]
           level  == decision_of[m]
       IN  IF counts["REFUND_DEMAND"] >= 2 \/ counts["COMPLAINT"] >= 2
           THEN [escalates |-> TRUE, reason |-> RepeatedReason, priority |-> "HIGH",
                 next |-> [takeover |-> TRUE, counts |-> counts]]
           ELSE IF level.level = "HIGH"
           THEN [escalates |-> TRUE, reason |-> level.reason,
                 priority |-> priority_of[level.reason],
                 next |-> [takeover |-> TRUE, counts |-> counts]]
           ELSE NoEscalation([takeover |-> FALSE, counts |-> counts])

\* the threads that hold the lock of the store
LockHolders == {th \in Threads : turns[th].pc \in InLock}

(***************************************************************************)
(* C1: once human_takeover is true it stays true over every call of        *)
(* get_full_response and every operation of the ticket store; only         *)
(* clear_memory sets it back to false.                                     *)
(***************************************************************************)
C1_TakeoverUntilClear ==
  [][(human_takeover /\ ~IsClear => human_takeover')
       /\ (IsClear => ~human_takeover')]_vars

\* a conversation still handed over after its ticket was resolved
C1_Witness ==
  /\ human_takeover
  /\ result = Returned("update_status", "", TRUE)
  /\ \E i \in 1..Len(_escalations) : _escalations[i].status = "RESOLVED"

(***************************************************************************)
(* C2: a get_full_response call made while human_takeover is true returns  *)
(* the fixed human-handling reply with escalated = true, raises nothing    *)
(* and changes neither the history, the intent counts, the recent intents, *)
(* the failure streak, the long-term memory nor the ticket store.          *)
(***************************************************************************)
C2_TakeoverShortCircuit ==
  [][human_takeover /\ IsTurn =>
       /\ result' = Returned("get_full_response", TakeoverReply, TRUE)
       /\ UNCHANGED <<human_takeover, _history, _intent_history, _intent_counter,
                      failed_ai_replies, conversation_start, long_term_memory,
                      _escalations, storage_file>>]_vars

\* a turn answered by the short circuit, with a ticket in the store
C2_Witness ==
  /\ human_takeover
  /\ result = Returned("get_full_response", TakeoverReply, TRUE)
  /\ Len(_escalations) = 1
  /\ _history # <<>>

(***************************************************************************)
(* C3: a step adds a ticket exactly when it flips human_takeover from      *)
(* false to true; that step is a turn and adds exactly one record, and no  *)
(* turn made while human_takeover is true adds one.  So the tickets of a   *)
(* session are as many as its NORMAL -> HUMAN_TAKEOVER transitions.        *)
(***************************************************************************)
C3_OneTicketPerTransition ==
  [][/\ (Len(_escalations') # Len(_escalations)) <=> (~human_takeover /\ human_takeover')
     /\ (~human_takeover /\ human_takeover') => (IsTurn /\ AddsOneTicket)
     /\ human_takeover => UNCHANGED _escalations \/ ~IsTurn]_vars

\* the second escalation of a session, after a clear_memory
C3_Witness ==
  /\ human_takeover
  /\ Len(_escalations) = 2
  /\ result.op = "get_full_response"

AfterFirstDemand ==
  /\ result.op = "get_full_response"
  /\ result.output # TakeoverReply
  /\ _intent_history = <<"REFUND_DEMAND">>
  /\ Len(_history) \in {1, 2}
  /\ _history[1].role = "user"

C6_HighPatternEscalates ==
  [][\A m \in Messages :
       (~human_takeover /\ decision_of[m].level = "HIGH" /\ get_full_response(m))
       => (AddsOneTicket /\ human_takeover' /\ result'.escalated)]_vars

(***************************************************************************)
(* C7: a turn whose message is an identity assertion or a name-recall      *)
(* question stores no ticket, does not set human_takeover and leaves the   *)
(* intent counts and the recent intents as they were.                      *)
(***************************************************************************)
C7_FastPathsSkipEscalation ==
  [][\A m \in Messages :
       ((name_of[m] # NoName \/ name_question_of[m]) /\ get_full_response(m))
       => UNCHANGED <<_escalations, storage_file, human_takeover, _intent_counter,
                      _intent_history>>]_vars

\* a name-recall question worded as a refund demand, answered from the
\* long-term memory after one demand was counted
C7_Witness ==
  /\ ~human_takeover
  /\ _intent_counter["REFUND_DEMAND"] = 1
  /\ result.op = "get_full_response"
  /\ ~result.raised
  /\ ~result.escalated
  /\ Len(_history) = 3
  /\ _history[3] = [role |-> "assistant", content |-> result.output]
  /\ result.output \in recalled_replies

(***************************************************************************)
(* C8: a ticket is stored only by a turn in NORMAL state on which the      *)
(* repeated-intent rule fired, the pattern rule returned HIGH or the       *)
(* failure streak reached 3; a turn whose message has pattern level LOW or *)
(* MEDIUM and leaves REFUND_DEMAND and COMPLAINT below 2 does not          *)
(* escalate.                                                               *)
(***************************************************************************)
C8_TicketOnlyByEscalationPath ==
  [][/\ Len(_escalations') # Len(_escalations) =>
          /\ ~human_takeover
          /\ \E m \in Messages :
               /\ IsClassified(m)
               /\ get_full_response(m)
               /\ \/ _intent_counter'["REFUND_DEMAND"] >= 2
                  \/ _intent_counter'["COMPLAINT"] >= 2
                  \/ decision_of[m].level = "HIGH"
                  \/ failed_ai_replies' >= 3
     /\ \A m \in Messages :
          (/\ decision_of[m].level \in {"LOW", "MEDIUM"}
           /\ get_full_response(m)
           /\ _intent_counter'["REFUND_DEMAND"] < 2
           /\ _intent_counter'["COMPLAINT"] < 2)
          => /\ UNCHANGED <<_escalations, storage_file, human_takeover>>
             /\ ~human_takeover => ~result'.escalated]_vars

\* a MEDIUM message answered by the bot
C8_Witness ==
  /\ ~human_takeover
  /\ _escalations = <<>>
  /\ result.op = "get_full_response"
  /\ ~result.raised
  /\ ~result.escalated
  /\ Len(_history) >= 2
  /\ _history[Len(_history) - 1].role = "user"
  /\ decision_of[_history[Len(_history) - 1].content].level = "MEDIUM"
  /\ _history[Len(_history)].content = result.output

(***************************************************************************)
(* C9: in NORMAL state three consecutive turns whose generated replies     *)
(* each contain a failure indicator bring the failure streak to 3, and the *)
(* third turn escalates with reason "Multiple failed AI responses" and     *)
(* priority HIGH.                                                          *)
(***************************************************************************)
failure_indicators == {"i don't know", "not sure", "cannot help", "no information"}

FailedAnswers ==
  {answer_of[r] : r \in {x \in Replies :
                           \E f \in failure_indicators : Contains(Lower(answer_of[x]), f)}}

FailedReplyAt(i) ==
  /\ _history[i].role = "assistant"
  /\ _history[i].content \in FailedAnswers
  /\ _history[i - 1].role = "user"

\* the last three turns each stored a generated reply with a failure indicator
ThreeFailedReplies ==
  /\ result.op = "get_full_response"
  /\ Len(_history) >= 6
  /\ \A k \in 0..2 : FailedReplyAt(Len(_history) - 2 * k)

FailureStreakReason == "Multiple failed AI responses"

C9_FailureStreakEscalates ==
  ThreeFailedReplies =>
    /\ failed_ai_replies = 3
    /\ human_takeover
    /\ \E i \in 1..Len(_escalations) :
         /\ _escalations[i].reason = FailureStreakReason
         /\ _escalations[i].priority = "HIGH"

(***************************************************************************)
(* C10: an error raised by the generation or the retrieval capability      *)
(* during a turn does not leave get_full_response: the call returns a      *)
(* fallback reply.                                                         *)
(***************************************************************************)
C10_ErrorsDegradeToReply ==
  result.op = "get_full_response" => ~result.raised

(***************************************************************************)
(* C11: clear_memory leaves the history empty, every intent count at 0,    *)
(* the recent intents empty, the failure streak at 0, the SLA clock        *)
(* restarted at the time of the call and human_takeover false, whatever    *)
(* the state before; the turn that follows is processed as the first turn  *)
(* of a conversation: it is not short-circuited, and a message that takes  *)
(* no fast path is the first of the history and the only one counted.      *)
(***************************************************************************)
C11_ClearResets ==
  [][/\ IsClear =>
          /\ _history' = <<>>
          /\ _intent_counter' = [i \in Intents |-> 0]
          /\ _intent_history' = <<>>
          /\ failed_ai_replies' = 0
          /\ conversation_start' = now'
          /\ now' >= now
          /\ ~human_takeover'
     /\ \A m \in Messages :
          (result.op = "clear_memory" /\ get_full_response(m)) =>
             /\ result'.output # TakeoverReply
             /\ IsClassified(m) =>
                  /\ _history'[1] = [role |-> "user", content |-> m]
                  /\ _intent_history' = <<intent_of[m]>>
                  /\ _intent_counter' = [i \in Intents |-> IF i = intent_of[m] THEN 1 ELSE 0]]_vars

\* a conversation that was handed over, just cleared, at a later time
C11_Witness ==
  /\ result.op = "clear_memory"
  /\ Len(_escalations) >= 1
  /\ ~human_takeover
  /\ _history = <<>>
  /\ conversation_start = now
  /\ now > 0

(***************************************************************************)
(* C12: after every call of add_user_message and add_agent_message the     *)
(* history holds at most max_history messages; the call appends its        *)
(* message at the end and, when the history was full, removes the oldest   *)
(* one, so the history is the most recent max_history messages in arrival  *)
(* order.                                                                  *)
(***************************************************************************)
C12_HistoryCapped ==
  /\ [](Len(_history) <= max_history)
  /\ [][result'.op \in {"add_user_message", "add_agent_message"} =>
          /\ Len(_history') >= 1
          /\ _history' = Append(IF Len(_history) = max_history THEN Tail(_history)
                                                               ELSE _history,
                                _history'[Len(_history')])
          /\ _history'[Len(_history')].role =
               (IF result'.op = "add_user_message" THEN "user" ELSE "assistant")]_vars

\* a full history that lost its two oldest messages to a reply and a user
\* message
C12_Witness ==
  /\ Len(_history) = max_history
  /\ result.op = "add_user_message"
  /\ _history[max_history].role = "user"
  /\ _history[max_history].content \in MemoryTexts
  /\ _history[max_history - 1].role = "assistant"
  /\ _history[max_history - 1].content \in MemoryTexts
  /\ _history[1] = [role |-> "user", content |-> EarlierText(3)]
  /\ \A i \in 1..(max_history - 2) : _history[i].content = EarlierText(i + 2)

(***************************************************************************)
(* C13: no two records of the ticket store share a ticket_id, also when    *)
(* two escalations happen within the same second of the clock.             *)
(***************************************************************************)
C13_TicketIdUnique ==
  \A i, j \in 1..Len(_escalations) :
    _escalations[i].ticket_id = _escalations[j].ticket_id => i = j

(***************************************************************************)
(* C14: round trip: when a turn has created a ticket with a ticket_id, a   *)
(* reason, a priority and the conversation of that moment, get_ticket of   *)
(* that ticket_id returns a record with this reason and priority, status   *)
(* OPEN and this conversation, whatever the store held before.             *)
(***************************************************************************)
EscalationReasons == {RepeatedReason, HighReason, MediumReason, InfoReason, GeneralReason}

Priorities == {"HIGH", "MEDIUM"}

C14_CreateThenGetTicket ==
  [][\A t \in 0..MaxTime, reason \in EscalationReasons, priority \in Priorities :
       (/\ IsTurn
        /\ AddsOneTicket
        /\ result'.output = escalation_reply(reason, priority, _generate_ticket_id(t)))
       => LET got == get_ticket(_generate_ticket_id(t))'
          IN  /\ got.ticket_id = _generate_ticket_id(t)
              /\ got.reason = reason
              /\ got.priority = priority
              /\ got.status = "OPEN"
              /\ got.conversation = SubSeq(_history', 1, Len(_history') - 1)]_vars

(***************************************************************************)
(* C15: update_status with a ticket_id no record has, or with a status     *)
(* that after upper-casing is none of OPEN, IN_PROGRESS, RESOLVED, returns *)
(* false, raises nothing and leaves every stored record and the persisted  *)
(* file unchanged.                                                         *)
(***************************************************************************)
\* status.upper() of line 114, for each status text
upper_of == [s \in StoreStatusInputs |-> Upper(s)]

\* the claim as the spec words it: any status text outside the three values
C15_RejectedUpdateChangesNothing ==
  [][\A t \in TicketIds, s \in StatusInputs :
       (/\ result'.op = "update_status"
        /\ find_ticket(t) = 0 \/ s \notin Statuses
        /\ update_status(t, s))
       => /\ result' = Returned("update_status", "", FALSE)
          /\ UNCHANGED <<_escalations, storage_file>>]_vars

C15_RejectedUpdateUpperCased ==
  [][\A t \in TicketIds, s \in StatusInputs :
       (/\ result'.op = "update_status"
        /\ find_ticket(t) = 0 \/ upper_of[s] \notin Statuses
        /\ update_status(t, s))
       => /\ result' = Returned("update_status", "", FALSE)
          /\ UNCHANGED <<_escalations, storage_file>>]_vars

\* a rejected update on a store that holds a ticket
C15_Witness ==
  /\ result = Returned("update_status", "", FALSE)
  /\ Len(_escalations) = 1
  /\ _escalations[1].status = "OPEN"
  /\ _escalations[1].updated_at = _escalations[1].created_at
  /\ storage_file = _escalations

(***************************************************************************)
(* C16: in every reachable state each record of the ticket store, in       *)
(* memory and in the persisted file, has a status among OPEN, IN_PROGRESS, *)
(* RESOLVED.                                                               *)
(***************************************************************************)
C16_StatusInEnum ==
  /\ \A i \in 1..Len(_escalations) : _escalations[i].status \in Statuses
  /\ \A i \in 1..Len(storage_file) : storage_file[i].status \in Statuses

\* a ticket moved to IN_PROGRESS by an accepted update
C16_Witness ==
  /\ result = Returned("update_status", "", TRUE)
  /\ \E i \in 1..Len(_escalations) : _escalations[i].status = "IN_PROGRESS"

(***************************************************************************)
(* C17: add_admin_reply on an existing ticket appends exactly one message  *)
(* of role admin at the end of that ticket's conversation and sets         *)
(* updated_at to the time of the call, leaving the other records alone; on *)
(* an unknown ticket it returns false and changes nothing.  No step        *)
(* changes a stored conversation except by appending admin messages, so    *)
(* the conversation stored at creation stays a prefix and every message    *)
(* after it has role admin.                                                *)
(***************************************************************************)
IsPrefix(p, q) == Len(p) <= Len(q) /\ SubSeq(q, 1, Len(p)) = p

C17_AdminReplyAppends ==
  /\ [][\A t \in TicketIds, x \in AdminTexts :
          add_admin_reply(t, x) =>
            IF find_ticket(t) > 0
            THEN /\ result' = Returned("add_admin_reply", "", TRUE)
                 /\ Len(_escalations') = Len(_escalations)
                 /\ \A i \in 1..Len(_escalations) :
                      IF i = find_ticket(t)
                      THEN /\ _escalations'[i].conversation =
                                Append(_escalations[i].conversation,
                                       [role |-> "admin", content |-> x])
                           /\ _escalations'[i].updated_at = now'
                           /\ _escalations'[i].updated_at >= _escalations[i].updated_at
                      ELSE _escalations'[i] = _escalations[i]
                 /\ storage_file' = _escalations'
            ELSE /\ result' = Returned("add_admin_reply", "", FALSE)
                 /\ UNCHANGED <<_escalations, storage_file>>]_vars
  /\ [][\A i \in 1..Len(_escalations) :
          /\ i <= Len(_escalations')
          /\ IsPrefix(_escalations[i].conversation, _escalations'[i].conversation)
          /\ \A k \in (Len(_escalations[i].conversation) + 1)
                         ..Len(_escalations'[i].conversation) :
                _escalations'[i].conversation[k].role = "admin"]_vars
  /\ [](\A i \in 1..Len(_escalations) :
          LET c == _escalations[i].conversation
          IN  /\ c # <<>>
              /\ c[1].role # "admin"
              /\ \A k \in 1..(Len(c) - 1) : c[k].role = "admin" => c[k + 1].role = "admin")

\* a ticket whose conversation ends with the admin's reply
C17_Witness ==
  /\ result = Returned("add_admin_reply", "", TRUE)
  /\ \E i \in 1..Len(_escalations) :
       LET c == _escalations[i].conversation
       IN  /\ Len(c) >= 2
           /\ c[1].role = "user"
           /\ c[Len(c)] = [role |-> "admin", content |-> "We are on it"]
           /\ _escalations[i].updated_at > _escalations[i].created_at

(***************************************************************************)
(* C18: the ticket store is shared by the sessions and its writes are      *)
(* serialized, so no committed ticket, status change or admin reply is     *)
(* lost: every write of the file keeps each record the file held, with its *)
(* conversation extended at most, its updated_at not set back, and its     *)
(* status changed only by a call of update_status.                         *)
(***************************************************************************)
C18_NoCommittedWriteLost ==
  [][\A j \in 1..Len(storage_file) :
       /\ j <= Len(storage_file')
       /\ LET old == storage_file[j]
              new == storage_file'[j]
          IN  /\ new.ticket_id = old.ticket_id
              /\ new.user_id = old.user_id
              /\ new.created_at = old.created_at
              /\ IsPrefix(old.conversation, new.conversation)
              /\ new.updated_at >= old.updated_at
              /\ new.status # old.status =>
                   result'.op \in {"update_status", "peer.update_status"}]_vars

(***************************************************************************)
(* C19: each mutation of the store is persisted atomically: when the       *)
(* process crashes during the write of a mutation, the store loaded at the *)
(* next start holds every record committed by the writes that completed    *)
(* before.                                                                 *)
(***************************************************************************)
C19_CommittedSurviveCrash ==
  result.op = "restart" => IsPrefix(storage_file, _escalations)

(***************************************************************************)
(* C20: two calls of get_full_response issued at the same time on one      *)
(* agent have the effects of the two turns run one after the other.  Run   *)
(* one after the other, the turns of a conversation that is never cleared  *)
(* create at most one ticket, and the turn that creates it ends the        *)
(* history: the ticket holds the history before its reply, and the reply   *)
(* is the last message.  So this holds whenever no call is in progress.    *)
(***************************************************************************)
NoCallInProgress == \A th \in Threads : turns[th].pc = "idle"

C20_ConcurrentTurnsSerial ==
  NoCallInProgress =>
    /\ Len(_escalations) <= 1
    /\ human_takeover <=> Len(_escalations) = 1
    /\ human_takeover =>
         LET ticket == _escalations[1]
         IN  /\ _history # <<>>
             /\ _history[Len(_history)] =
                  [role    |-> "assistant",
                   content |-> escalation_reply(ticket.reason, ticket.priority,
                                                ticket.ticket_id)]
             /\ ticket.conversation = SubSeq(_history, 1, Len(_history) - 1)

(***************************************************************************)
(* C21: at any time at most one record of the store that belongs to the    *)
(* conversation of the session has status OPEN, over any sequence of       *)
(* turns, clear_memory calls and status updates of the admin.              *)
(***************************************************************************)
OpenTicketsOf(uid) ==
  {i \in 1..Len(_escalations) :
     _escalations[i].user_id = uid /\ _escalations[i].status = "OPEN"}

C21_AtMostOneOpenTicket == Cardinality(OpenTicketsOf(user_id)) <= 1

Brought(chosen) == UNION {Phrases[i].brings : i \in chosen}

LabelByPriority(chosen) ==
  LET b == Brought(chosen)
  IN  IF "name" \in b THEN "IDENTITY"
      ELSE IF {"refund", "demand"} \subseteq b THEN "REFUND_DEMAND"
      ELSE IF "refund" \in b THEN "REFUND_INFO"
      ELSE IF "complaint" \in b THEN "COMPLAINT"
      ELSE IF "human" \in b THEN "HUMAN_REQUEST"
      ELSE "GENERAL"

C23_IntentByPriority ==
  result.op = "_detect_intent" =>
    /\ ~result.raised
    /\ result.output \in Intents
    /\ result.output = LabelByPriority(result.chosen)

\* a shouted message that holds all but a name: four rules match, the
\* refund demand wins
C23_Witness ==
  /\ result.op = "_detect_intent"
  /\ result.chosen = 1..(Len(Phrases) - 1)
  /\ result.shouted
  /\ result.output = "REFUND_DEMAND"

(***************************************************************************)
(* C24: the SLA flag is advisory.  is_sla_breached() is true exactly when  *)
(* the time read minus conversation_start is at least sla_seconds, and it  *)
(* changes nothing; the time that passes changes nothing either; a turn of *)
(* a conversation whose SLA time is up stores a ticket only when the       *)
(* repeated-intent rule or the HIGH pattern fires on its message; and      *)
(* conversation_start changes only in clear_memory.                        *)
(***************************************************************************)
SlaTimeUp == now - conversation_start >= sla_seconds

C24_SlaAdvisory ==
  [][/\ result'.op = "is_sla_breached" /\ calls' = calls + 1 =>
          result'.breached <=> (now' - conversation_start >= sla_seconds)
     /\ ~IsTurn /\ ~IsClear =>
          UNCHANGED <<human_takeover, memory_vars, long_term_memory, store_vars>>
     /\ (SlaTimeUp /\ IsTurn /\ ~human_takeover) =>
          \/ UNCHANGED <<_escalations, storage_file, human_takeover>> /\ ~result'.escalated
          \/ /\ AddsOneTicket
             /\ LET ticket == _escalations'[Len(_escalations')]
                IN  /\ IsClassified(Trigger(ticket))
                    /\ \/ /\ ticket.reason = RepeatedReason
                          /\ \/ _intent_counter'["REFUND_DEMAND"] >= 2
                             \/ _intent_counter'["COMPLAINT"] >= 2
                       \/ /\ ticket.reason = HighReason
                          /\ decision_of[Trigger(ticket)].level = "HIGH"
     /\ conversation_start' # conversation_start => IsClear]_vars

\* the SLA time of a conversation is up while the bot still answers it and
\* the store holds no ticket
C24_Witness ==
  /\ result.op = "is_sla_breached"
  /\ result.breached
  /\ _history # <<>>
  /\ ~human_takeover
  /\ _escalations = <<>>

(***************************************************************************)
(* C25: list_escalations returns every stored record exactly once, ordered *)
(* by created_at descending, and does not modify the store.                *)
(***************************************************************************)
\* the bijections between the places of a list of n records
Rearrangements(n) ==
  {p \in [1..n -> 1..n] : \A i, j \in 1..n : p[i] = p[j] => i = j}

C25_ListLatestFirst ==
  [][result'.op = "list_escalations" =>
       LET listed == result'.value
       IN  /\ Len(listed) = Len(_escalations)
           /\ \E p \in Rearrangements(Len(listed)) :
                \A i \in 1..Len(listed) : listed[i] = _escalations[p[i]]
           /\ \A i, j \in 1..Len(listed) :
                i < j => listed[i].created_at >= listed[j].created_at
           /\ UNCHANGED store_vars]_vars

\* three tickets of two different seconds, listed
C25_Witness ==
  /\ result.op = "list_escalations"
  /\ Len(result.value) = 3
  /\ result.value[1].created_at > result.value[3].created_at
  /\ result.value # _escalations

(***************************************************************************)
(* C26: count_by_status returns exactly the three keys OPEN, IN_PROGRESS   *)
(* and RESOLVED, with 0 for a status no ticket has, and count_by_priority  *)
(* one key per priority present; each value is the number of stored        *)
(* records with that status or priority, so the values sum to the number   *)
(* of stored tickets.  Neither modifies the store.                         *)
(***************************************************************************)
RECURSIVE SumOver(_, _)
\* the sum of the values of counts at the keys
SumOver(counts, keys) ==
  IF keys = {} THEN 0
  ELSE LET k == CHOOSE x \in keys : TRUE
       IN  counts[k] + SumOver(counts, keys \ {k})

WithStatus(s) == {i \in 1..Len(_escalations) : _escalations[i].status = s}

WithPriority(p) == {i \in 1..Len(_escalations) : _escalations[i].priority = p}

C26_CountsByStatusAndPriority ==
  [][/\ result'.op = "count_by_status" =>
          /\ ~result'.raised
          /\ DOMAIN result'.value = Statuses
          /\ \A s \in Statuses : result'.value[s] = Cardinality(WithStatus(s))
          /\ SumOver(result'.value, Statuses) = Len(_escalations)
          /\ UNCHANGED store_vars
     /\ result'.op = "count_by_priority" =>
          /\ DOMAIN result'.value =
               {_escalations[i].priority : i \in 1..Len(_escalations)}
          /\ \A p \in DOMAIN result'.value : result'.value[p] = Cardinality(WithPriority(p))
          /\ SumOver(result'.value, DOMAIN result'.value) = Len(_escalations)
          /\ UNCHANGED store_vars]_vars

\* tickets of two priorities counted by status while none is IN_PROGRESS
C26_Witness ==
  /\ result.op = "count_by_status"
  /\ ~result.raised
  /\ result.value["IN_PROGRESS"] = 0
  /\ result.value["OPEN"] = 1
  /\ result.value["RESOLVED"] = 1
  /\ Cardinality({_escalations[i].priority : i \in 1..Len(_escalations)}) = 2

(***************************************************************************)
(* C27: after every generated reply in NORMAL state the failure streak is  *)
(* updated: a reply that contains a failure indicator adds 1 to it, any    *)
(* other reply resets it to 0.                                             *)
(***************************************************************************)
C27_FailureStreakTracked ==
  [][\A m \in Messages :
       (/\ IsTurn
        /\ ~human_takeover
        /\ IsClassified(m)
        /\ get_full_response(m)
        /\ ~result'.raised
        /\ ~result'.escalated) =>
         failed_ai_replies' =
           IF result'.output \in FailedAnswers THEN failed_ai_replies + 1 ELSE 0]_vars

(***************************************************************************)
(* C28: the conversation state is changed only after the external call of  *)
(* a turn succeeded: when the generation or the retrieval call of a turn   *)
(* fails, the history, the intent counts and the recent intents are the    *)
(* same as before the turn.                                                *)
(***************************************************************************)
C28_FailedCallLeavesConversation ==
  [][(IsTurn /\ result'.raised) =>
       UNCHANGED <<_history, _intent_counter, _intent_history>>]_vars

(***************************************************************************)
(* C29: the conversation of a ticket is a copy, not the list of the        *)
(* conversation memory: once the ticket is created, add_user_message,      *)
(* add_agent_message (the escalation reply and the eviction of the oldest  *)
(* message included) and clear never change the conversation of the        *)
(* ticket, and add_admin_reply on the ticket never changes the history of  *)
(* the session.                                                            *)
(***************************************************************************)
C29_ConversationIsCopy ==
  [][/\ result'.op # "add_admin_reply" =>
          \A i \in 1..Len(heap.conversations) : Conversation(i)' = Conversation(i)
     /\ result'.op = "add_admin_reply" => History' = History
     /\ \A i \in 1..Len(heap.conversations) : heap.conversations[i] # history_list]_vars

\* a ticket created from a full history, whose oldest messages the memory
\* has evicted since
C29_Witness ==
  /\ result.op \in {"add_user_message", "add_agent_message"}
  /\ Len(History) = max_history
  /\ \E i \in 1..Len(heap.conversations) :
       /\ Len(Conversation(i)) = max_history
       /\ Conversation(i)[1] # History[1]

(***************************************************************************)
(* C30: the store enforces no order on the life cycle of a ticket: for a   *)
(* ticket of the store, update_status(ticket_id, s) returns true, sets the *)
(* status to s and sets updated_at to the time of the call, for every s of *)
(* OPEN, IN_PROGRESS and RESOLVED and from every status, also backwards,   *)
(* as from RESOLVED to OPEN.                                               *)
(***************************************************************************)
C30_NoLifecycleOrder ==
  [][\A t \in TicketIds, s \in Statuses :
       (/\ result'.op = "update_status"
        /\ calls' = calls + 1
        /\ find_ticket(t) > 0
        /\ update_status(t, s)) =>
         /\ result'.escalated
         /\ get_ticket(t)'.status = s
         /\ get_ticket(t)'.updated_at = now'
         /\ get_ticket(t)'.updated_at >= get_ticket(t).updated_at]_vars

\* an accepted update left a ticket OPEN, after the time of its creation
C30_Witness ==
  /\ result.op = "update_status"
  /\ result.escalated
  /\ \E i \in 1..Len(_escalations) :
       /\ _escalations[i].status = "OPEN"
       /\ _escalations[i].updated_at > _escalations[i].created_at

(***************************************************************************)
(* C31: the pattern rule tests its tiers in the order HIGH, MEDIUM, LOW    *)
(* and returns the first tier that has a matching pattern, so a message    *)
(* that matches patterns of several tiers gets the highest; a message that *)
(* matches no pattern gets level LOW with the general-query reason.  The   *)
(* result is a function of the message alone.                              *)
(***************************************************************************)
TiersOf(chosen) == {PatternPhrases[i].tier : i \in chosen}

DecisionByTier(chosen) ==
  IF "HIGH" \in TiersOf(chosen) THEN [level |-> "HIGH", reason |-> HighReason]
  ELSE IF "MEDIUM" \in TiersOf(chosen) THEN [level |-> "MEDIUM", reason |-> MediumReason]
  ELSE IF "LOW" \in TiersOf(chosen) THEN [level |-> "LOW", reason |-> InfoReason]
  ELSE [level |-> "LOW", reason |-> GeneralReason]

C31_HighestTierWins ==
  result.op = "should_escalate" =>
    /\ ~result.raised
    /\ result.value = DecisionByTier(result.chosen)

\* a shouted message that holds phrases of all three tiers
C31_Witness ==
  /\ result.op = "should_escalate"
  /\ result.shouted
  /\ TiersOf(result.chosen) = {"", "LOW", "MEDIUM", "HIGH"}
  /\ result.value.level = "HIGH"

(***************************************************************************)
(* C32: the priority of a ticket is derived from the reason by substring:  *)
(* HIGH when the reason holds fraud, scam or hacked; otherwise MEDIUM when *)
(* it holds refund, billing or payment; otherwise LOW.                     *)
(***************************************************************************)
C32_PriorityDefaultLow ==
  result.op = "_decide_priority" =>
    result.output =
      IF "HIGH" \in KeywordsOf(result.chosen) THEN "HIGH"
      ELSE IF "MEDIUM" \in KeywordsOf(result.chosen) THEN "MEDIUM"
      ELSE "LOW"

\* C32 as amended: HIGH when the reason holds fraud, scam or hacked, and
\* MEDIUM otherwise, whether it holds refund, billing or payment or no
\* keyword at all.
C32_PriorityDefaultMedium ==
  result.op = "_decide_priority" =>
    /\ ~result.raised
    /\ result.output =
         IF "HIGH" \in KeywordsOf(result.chosen) THEN "HIGH" ELSE "MEDIUM"

\* a reason without any keyword got MEDIUM
C32_Witness ==
  /\ result.op = "_decide_priority"
  /\ result.chosen = {1}
  /\ result.output = "MEDIUM"

(***************************************************************************)
(* C33: the intent counts change in two ways only: add_user_message adds   *)
(* exactly 1 to the count of the one label it returns and leaves the other *)
(* counts alone, and clear sets every count to 0; add_agent_message,       *)
(* get_intent_count, the mark and the reset of the failure streak and the  *)
(* SLA operations leave the counts as they are; no count is negative.      *)
(***************************************************************************)
C33_IntentCountsChange ==
  [][/\ \A i \in Intents : _intent_counter'[i] >= 0
     /\ CASE result'.op = "add_user_message" ->
               /\ result'.output \in Intents
               /\ \A i \in Intents :
                    _intent_counter'[i] =
                      _intent_counter[i] + (IF i = result'.output THEN 1 ELSE 0)
          [] result'.op = "clear" ->
               \A i \in Intents : _intent_counter'[i] = 0
          [] OTHER ->
               /\ result'.op \in {"add_agent_message", "get_intent_count",
                                  "mark_failed_ai_reply", "reset_failed_ai_replies",
                                  "is_sla_breached", "reset_sla"}
               /\ _intent_counter' = _intent_counter]_vars

\* two user messages were counted under two labels, and a reset of the SLA
\* clock then left both counts as they were
C33_Witness ==
  /\ result.op = "reset_sla"
  /\ _intent_counter["REFUND_DEMAND"] = 1
  /\ _intent_counter["COMPLAINT"] = 1
  /\ calls = MaxAdds

C35_EscalationOrder ==
  /\ [][\A m \in Messages :
          ~human_takeover /\ IsTurn /\ result'.escalated /\ get_full_response(m) =>
            LET ticket   == LastTicket'
                snapshot == ticket.conversation
                reply    == [role |-> "assistant", content |-> result'.output]
            IN  /\ AddsOneTicket
                /\ storage_file' = _escalations'
                /\ snapshot = _add_message(_history, "user", m)
                /\ snapshot[Len(snapshot)] = [role |-> "user", content |-> m]
                /\ _intent_counter'[intent_of[m]] = _intent_counter[intent_of[m]] + 1
                /\ \A i \in 1..Len(snapshot) : snapshot[i] # reply
                /\ human_takeover'
                /\ result'.output =
                     escalation_reply(ticket.reason, ticket.priority, ticket.ticket_id)
                /\ _history' = _add_message(snapshot, "assistant", result'.output)]_vars
  /\ [](human_takeover =>
          /\ _escalations # <<>>
          /\ storage_file = _escalations
          /\ _history # <<>>
          /\ _history[Len(_history)].content =
               escalation_reply(LastTicket.reason, LastTicket.priority,
                                LastTicket.ticket_id))

\* a second turn has escalated: its ticket holds the two user messages and
\* the first reply, and the history holds the escalation reply after them
C35_Witness ==
  /\ human_takeover
  /\ result.op = "get_full_response"
  /\ result.escalated
  /\ Len(_escalations) = 1
  /\ Len(LastTicket.conversation) = 3
  /\ Len(_history) = 4
  /\ _history[4].content = result.output

(***************************************************************************)
(* C36: an identity turn and a name-recall turn do not append the message  *)
(* of the user to the conversation history: the turn appends exactly one   *)
(* assistant message and nothing else, so no ticket snapshot holds the     *)
(* user message of such a turn.                                            *)
(***************************************************************************)
C36_FastPathsAppendReply ==
  /\ [][\A m \in Messages :
          ~human_takeover /\ ~IsClassified(m) /\ IsTurn /\ get_full_response(m) =>
            /\ _history' # <<>>
            /\ _history'[Len(_history')].role = "assistant"
            /\ _history' = _add_message(_history, "assistant",
                                        _history'[Len(_history')].content)]_vars
  /\ [](\A i \in 1..Len(_escalations) :
          \A j \in 1..Len(_escalations[i].conversation) :
            LET message == _escalations[i].conversation[j]
            IN  message.role = "user" => IsClassified(message.content))

(***************************************************************************)
(* C37: a ticket created by the agent has priority HIGH when it comes from *)
(* the repeated-intent rule and priority MEDIUM when it comes from the     *)
(* pattern rule, whatever the message of the user says, fraud, scam and    *)
(* hacked included, since the reason of the pattern rule is a fixed text;  *)
(* no ticket created by the agent has priority LOW.                        *)
(***************************************************************************)
C37_PriorityByRule ==
  /\ [][\A m \in FraudMessages :
          ~human_takeover /\ IsTurn /\ result'.escalated /\ get_full_response(m) =>
            /\ AddsOneTicket
            /\ IF repeated_intent(_intent_counter')
               THEN /\ LastTicket'.reason = RepeatedReason
                    /\ LastTicket'.priority = "HIGH"
               ELSE /\ decision_of[m].level = "HIGH"
                    /\ LastTicket'.reason = decision_of[m].reason
                    /\ LastTicket'.priority = "MEDIUM"]_vars
  /\ [](\A i \in 1..Len(_escalations) :
          /\ _escalations[i].priority \in {"HIGH", "MEDIUM"}
          /\ _escalations[i].priority = "HIGH" <=> _escalations[i].reason = RepeatedReason)

\* a ticket of the pattern rule for a message that names a scam, and after a
\* clear_memory a ticket of the repeated-intent rule for a complaint about
\* scammers
C37_Witness ==
  /\ Len(_escalations) = 2
  /\ Trigger(_escalations[1]) = "this is a scam"
  /\ _escalations[1].priority = "MEDIUM"
  /\ Trigger(_escalations[2]) = "bad product from scammers"
  /\ _escalations[2].reason = RepeatedReason
  /\ _escalations[2].priority = "HIGH"

(***************************************************************************)
(* C38: the escalation decision is determined by the user messages and the *)
(* clear_memory calls alone: two runs of a session fed the same messages,  *)
(* with different generated replies and different retrieval and long-term  *)
(* memory results, none of them raising, escalate at the same turn with    *)
(* the same reason and priority.  Every turn that returns escalates or not *)
(* as DecisionOf says from the takeover flag, the counts and the message,  *)
(* and leaves the flag and the counts that DecisionOf says; clear_memory   *)
(* leaves the flag false and the counts 0; so the flag and the counts of   *)
(* two such runs stay equal, and so do their tickets.                      *)
(***************************************************************************)
C38_DecisionByMessagesAlone ==
  [][/\ \A m \in Messages :
          IsTurn /\ ~result'.raised /\ get_full_response(m) =>
            LET decided == DecisionOf(DecisionState, m)
            IN  /\ DecisionState' = decided.next
                /\ result'.escalated = decided.next.takeover
                /\ IF decided.escalates
                   THEN /\ AddsOneTicket
                        /\ LastTicket'.reason = decided.reason
                        /\ LastTicket'.priority = decided.priority
                   ELSE UNCHANGED _escalations
     /\ IsClear =>
          /\ DecisionState' = [takeover |-> FALSE, counts |-> [i \in Intents |-> 0]]
          /\ UNCHANGED _escalations]_vars

\* the third turn escalates by the repeated-intent rule, after a turn that
\* the generation answered with "I don't know" and a name-recall turn
C38_Witness ==
  /\ calls = MaxCalls + 1
  /\ human_takeover
  /\ Len(_escalations) = 1
  /\ LastTicket.reason = RepeatedReason
  /\ Len(_history) = 5
  /\ _history[2].content = "I don't know"
  /\ _history[3].role = "assistant"

(***************************************************************************)
(* C39: on one AdminStore, add_escalation, update_status, add_admin_reply  *)
(* and the reads exclude each other under the lock of the store, and when  *)
(* the lock is free after a mutation has succeeded the file holds exactly  *)
(* the list in memory: a mutation that succeeds writes the whole list      *)
(* before it gives the lock back, and an operation that fails writes       *)
(* nothing.                                                                *)
(***************************************************************************)
C39_LockedStoreMatchesFile ==
  /\ [](Cardinality(LockHolders) <= 1)
  /\ [](LockHolders = {} /\ _escalations # <<>> =>
          ~storage_torn /\ storage_file = _escalations)
  /\ [][/\ \A th \in Threads :
             turns[th].pc = "release" /\ turns'[th].pc = "idle" /\ turns[th].ok
               /\ turns[th].op # "list_escalations" =>
                 ~storage_torn /\ storage_file = _escalations
        /\ \A th \in Threads :
             turns[th].pc = "locked" /\ turns'[th].pc = "release" =>
               UNCHANGED store_vars
        /\ result' # result /\ ~result'.escalated => UNCHANGED store_vars]_vars

\* a thread waits for the lock while the other is between the two statements
\* of _save_to_disk with a status change, after a ticket was stored
C39_Witness ==
  \E th \in Threads, other \in Threads :
    /\ turns[th].pc = "dump"
    /\ turns[th].op = "update_status"
    /\ turns[other].pc = "acquire"
    /\ storage_torn
    /\ Len(_escalations) = 1
    /\ _escalations[1].status = "RESOLVED"
    /\ storage_file[1].status = "OPEN"

====
